---- MODULE Spec2Model ----
(***************************************************************************)
(* A model of the two aggregate stores of vinpix_lambda:                   *)
(*   - the daily metrics rollup (src/metrics.py, driven by src/cart.py),   *)
(*   - the wrong-answer statistics (src/question_uploader.py).             *)
(* The DynamoDB tables are functions from keys to items; every handler is  *)
(* one action of the sequential specifications, and a sequence of store    *)
(* operations in the concurrent one.                                       *)
(***************************************************************************)
EXTENDS Integers, Sequences, FiniteSets, TLC

VARIABLES
    orders,     \* sb_orders: sequence of order items, the order id is the position
    metrics,    \* sb_metrics_daily: <<organizationId, date>> -> day row
    incCalls,   \* history: per order, the number of finished increment_daily_metrics_for_order calls
    nRebuilds,  \* history: the number of rebuild_metrics_range calls made
    resp,       \* the response of the last handler that returned
    pc,         \* concurrent specification: per invocation, the position in its handler
    loc,        \* concurrent specification: per invocation, its local variables
    rb,         \* concurrent specification: the rebuild_metrics_range invocation in progress
    stats,      \* sb_question_stats: <<bucket, question_id>> -> row
    now,        \* the clock of the wrong-answer statistics, as a day number
    qver,       \* the version of the stored question set's content
    calls,      \* history: the record_wrong_answers calls that reached the question loop
    nTops,      \* the number of get_top_wrong_questions calls made
    wr          \* concurrent specification: per record_wrong_answers invocation, its position and locals

metricsVars == <<orders, metrics, incCalls, nRebuilds, pc, loc, rb>>
statsVars == <<stats, now, qver, calls, nTops, wr>>
vars == <<orders, metrics, incCalls, nRebuilds, resp, pc, loc, rb, stats, now, qver, calls,
          nTops, wr>>

----------------------------------------------------------------------------
(* Bounds of the model *)

MaxOrders == 2          \* orders ever created
MaxIncrements == 3      \* increment_daily_metrics_for_order calls ever made
MaxRebuilds == 1        \* rebuild_metrics_range calls ever made
NProcs == 2             \* concurrent update_order_status invocations
MaxRecords == 2         \* record_wrong_answers calls that reach the question loop
MaxTops == 1            \* get_top_wrong_questions calls
NSingle == 11           \* single-mapping questions of the stored question set

----------------------------------------------------------------------------
(* Calendar: datetime.fromtimestamp(.., utc), strftime and isocalendar *)

SecondsPerDay == 24 * 60 * 60

\* The civil date <<year, month, day>> of a day number counted from 1970-01-01.
\* "%Y-%m-%d" is zero padded, so the order of the strings is the lexicographic
\* order of these triples.
CivilFromDays(days) ==
    LET z   == days + 719468
        era == z \div 146097
        doe == z - era * 146097
        yoe == (doe - (doe \div 1460) + (doe \div 36524) - (doe \div 146096)) \div 365
        doy == doe - (365 * yoe + (yoe \div 4) - (yoe \div 100))
        mp  == (5 * doy + 2) \div 153
        d   == doy - ((153 * mp + 2) \div 5) + 1
        m   == IF mp < 10 THEN mp + 3 ELSE mp - 9
        y   == yoe + era * 400 + (IF m <= 2 THEN 1 ELSE 0)
    IN  <<y, m, d>>

\* The inverse: the day number of a civil date (datetime.strptime(..).timestamp() / 86400).
DaysFromCivil(date) ==
    LET y0  == date[1]
        m   == date[2]
        d   == date[3]
        y   == IF m <= 2 THEN y0 - 1 ELSE y0
        era == y \div 400
        yoe == y - era * 400
        mp  == IF m > 2 THEN m - 3 ELSE m + 9
        doy == ((153 * mp + 2) \div 5) + d - 1
        doe == yoe * 365 + (yoe \div 4) - (yoe \div 100) + doy
    IN  era * 146097 + doe - 719468

_to_iso_date_from_epoch(epoch_seconds) == CivilFromDays(epoch_seconds \div SecondsPerDay)

\* date strings compare as their <<year, month, day>> triples
DateLeq(a, b) ==
    \/ a[1] < b[1]
    \/ a[1] = b[1] /\ a[2] < b[2]
    \/ a[1] = b[1] /\ a[2] = b[2] /\ a[3] <= b[3]

\* datetime.isocalendar(): <<iso_year, iso_week>>; the week belongs to the year
\* of its Thursday, weeks run Monday to Sunday.
IsoCalendar(days) ==
    LET weekday  == (days + 3) % 7              \* 0 = Monday; 1970-01-01 is a Thursday
        thursday == days - weekday + 3
        isoYear  == CivilFromDays(thursday)[1]
        jan1     == DaysFromCivil(<<isoYear, 1, 1>>)
    IN  <<isoYear, ((thursday - jan1) \div 7) + 1>>

----------------------------------------------------------------------------
(* The inputs the model draws from *)

DefaultOrg == "default"
Orgs == {DefaultOrg, "other"}
Users == {"u1", "u2"}
NoUser == ""                        \* a missing or empty userId: `not user_id`
UserIds == Users \cup {NoUser}
Prices == {0, 50000, 100000}        \* calculated_total of an order, in VND
ModelDates == {<<2025, 3, 10>>, <<2025, 3, 11>>}
\* the instants at which orders are created: the last second of the first day
\* and the first second of the next
Instants ==
    { DaysFromCivil(<<2025, 3, 10>>) * SecondsPerDay + SecondsPerDay - 1,
      DaysFromCivil(<<2025, 3, 11>>) * SecondsPerDay }
Procs == 1..NProcs

\* 2024-12-29 is a Sunday (ISO week 2024-W52); 2024-12-30 and 2024-12-31 are in
\* ISO week 2025-W01 and in month 2024-12; 2025-01-01 is in 2025-W01 and 2025-01.
FirstClockDay == DaysFromCivil(<<2024, 12, 29>>)
ClockDays == {DaysFromCivil(<<2024, 12, 29>>), DaysFromCivil(<<2024, 12, 30>>),
              DaysFromCivil(<<2025, 1, 1>>)}

RECURSIVE SumOver(_, _)
\* sum of f[i] over the finite set S
SumOver(f, S) ==
    IF S = {} THEN 0
    ELSE LET i == CHOOSE x \in S : TRUE IN f[i] + SumOver(f, S \ {i})

----------------------------------------------------------------------------
(* The item store (DynamoDB): get_item, put_item, batch delete *)

\* A day row. attrs is the set of attributes the item has; an attribute that is
\* not in attrs holds the value DynamoDB's ADD / if_not_exists start from.
BlankItem ==
    [attrs |-> {}, revenue |-> 0, orderCount |-> 0, payingUsers |-> 0, payingUserIds |-> {}]

GetItem(tbl, key) ==
    IF key \in DOMAIN tbl THEN [found |-> TRUE, item |-> tbl[key]]
    ELSE [found |-> FALSE, item |-> BlankItem]

PutItem(tbl, key, item) ==
    [k \in DOMAIN tbl \cup {key} |-> IF k = key THEN item ELSE tbl[k]]

DeleteItems(tbl, keys) == [k \in DOMAIN tbl \ keys |-> tbl[k]]

----------------------------------------------------------------------------
(* metrics.increment_daily_metrics_for_order *)

\* int(round(float(finalPrice))): finalPrice is stored as an integer by create_order
Amount(order) == order.finalPrice

\* the key with the date taken in the time zone UTC+7
MetricsKeyLocalDate(order) ==
    <<DefaultOrg, _to_iso_date_from_epoch(order.createdAt + 7 * 3600)>>

MetricsKey(order) == <<DefaultOrg, _to_iso_date_from_epoch(order.createdAt)>>

\* paying_user_ids, from the item that get_item returned
PayingUserIdsRead(existing) ==
    IF existing.found /\ "payingUserIds" \in existing.item.attrs
    THEN existing.item.payingUserIds ELSE {}

IsNewUserTodayAlways(existing, user_id) == TRUE

is_new_user_today(existing, user_id) == user_id \notin PayingUserIdsRead(existing)

\* the item put when get_item found no row
NewDayItem(order, isNew) ==
    [attrs |-> {"currency", "revenue", "orderCount"}
                 \cup (IF isNew THEN {"payingUsers", "payingUserIds"} ELSE {}),
     revenue |-> Amount(order),
     orderCount |-> 1,
     payingUsers |-> IF isNew THEN 1 ELSE 0,
     payingUserIds |-> IF isNew THEN {order.userId} ELSE {}]

\* ADD revenue :revenue, orderCount :one (an upsert: ADD starts from 0 on a
\* missing item or attribute)
AddCounters(tbl, key, amount) ==
    LET cur == GetItem(tbl, key).item
    IN  PutItem(tbl, key,
            [cur EXCEPT !.attrs = @ \cup {"revenue", "orderCount"},
                        !.revenue = @ + amount,
                        !.orderCount = @ + 1])

\* payingUsers = if_not_exists(payingUsers, :zero) + :one and ADD payingUserIds :uidset
AddPayer(tbl, key, user_id) ==
    LET cur == GetItem(tbl, key).item
    IN  PutItem(tbl, key,
            [cur EXCEPT !.attrs = @ \cup {"payingUsers", "payingUserIds"},
                        !.payingUsers = @ + 1,
                        !.payingUserIds = @ \cup {user_id}])

\* The update as one well-formed expression would apply it.
UpdateDayItemWellFormed(tbl, key, amount, user_id, isNew) ==
    IF isNew THEN AddPayer(AddCounters(tbl, key, amount), key, user_id)
    ELSE AddCounters(tbl, key, amount)

\* update_item with the expression the code builds. For a user who is not new
\* it is "SET updatedAt = :now ADD revenue :revenue, orderCount :one".  For a
\* new user the code appends ", payingUsers = if_not_exists(..) + :one" and
\* " ADD payingUserIds :uidset" after the ADD clause: the SET action lands in
\* the ADD clause and ADD appears twice, DynamoDB rejects the expression and
\* changes nothing; the ClientError is swallowed by the except at the end.
UpdateDayItem(tbl, key, amount, user_id, isNew) ==
    IF isNew THEN tbl ELSE AddCounters(tbl, key, amount)

\* the write half of the call, given what get_item returned earlier
IncrementWrite(tbl, order, existing) ==
    LET isNew == is_new_user_today(existing, order.userId)
    IN  IF ~existing.found
        THEN PutItem(tbl, MetricsKey(order), NewDayItem(order, isNew))
        ELSE UpdateDayItem(tbl, MetricsKey(order), Amount(order), order.userId, isNew)

\* the whole call, run without interleaving: the metrics table it leaves
increment_daily_metrics_for_order(tbl, order) ==
    IF order.userId = NoUser THEN tbl
    ELSE IncrementWrite(tbl, order, GetItem(tbl, MetricsKey(order)))

----------------------------------------------------------------------------
(* metrics.get_metrics_series *)

RowsInRange(tbl, start_date, end_date, organization_id) ==
    { k \in DOMAIN tbl :
        k[1] = organization_id /\ DateLeq(start_date, k[2]) /\ DateLeq(k[2], end_date) }

SeriesPointStoredOnly(key, item) ==
    [date |-> key[2],
     revenue |-> item.revenue,
     orderCount |-> item.orderCount,
     payingUsers |-> item.payingUsers]

\* one point: payingUsers is item.get("payingUsers", len(item.get("payingUserIds", [])))
SeriesPoint(key, item) ==
    [date |-> key[2],
     revenue |-> item.revenue,
     orderCount |-> item.orderCount,
     payingUsers |-> IF "payingUsers" \in item.attrs THEN item.payingUsers
                     ELSE Cardinality(item.payingUserIds)]

RECURSIVE SortByDate(_, _)
\* points.sort(key = date): the rows of keys, ascending by date
SortByDate(tbl, keys) ==
    IF keys = {} THEN <<>>
    ELSE LET k == CHOOSE x \in keys : \A y \in keys : DateLeq(x[2], y[2])
         IN  <<SeriesPoint(k, tbl[k])>> \o SortByDate(tbl, keys \ {k})

get_metrics_series(tbl, start_date, end_date, organization_id) ==
    SortByDate(tbl, RowsInRange(tbl, start_date, end_date, organization_id))

----------------------------------------------------------------------------
(* metrics.rebuild_metrics_range *)

\* start_epoch and end_epoch: the first and the last second of the range
StartEpoch(start_date) == DaysFromCivil(start_date) * SecondsPerDay
EndEpoch(end_date) == (DaysFromCivil(end_date) + 1) * SecondsPerDay - 1

\* The query on status-createdAt-index: the completed orders created in the
\* range. create_order stores createdAt as a number, so the numeric bounds
\* decide; the partition-only fallback filters by the same bounds.
CompletedInRange(log, start_date, end_date) ==
    { i \in 1..Len(log) :
        /\ log[i].status = "completed"
        /\ StartEpoch(start_date) <= log[i].createdAt
        /\ log[i].createdAt <= EndEpoch(end_date) }

\* by_day: per day of the queried orders, the revenue, the count and the users
AggregateByDay(log, ids) ==
    LET dayOf(i) == _to_iso_date_from_epoch(log[i].createdAt)
        prices == [i \in ids |-> log[i].finalPrice]
    IN  [day \in {dayOf(i) : i \in ids} |->
            LET mine == {i \in ids : dayOf(i) = day}
            IN  [revenue |-> SumOver(prices, mine),
                 orderCount |-> Cardinality(mine),
                 users |-> {log[i].userId : i \in mine} \ {NoUser}]]

RebuiltItemCountingOrders(agg) ==
    [attrs |-> {"currency", "revenue", "orderCount", "payingUsers", "payingUserIds"},
     revenue |-> agg.revenue,
     orderCount |-> agg.orderCount,
     payingUsers |-> agg.orderCount,
     payingUserIds |-> agg.users]

\* the item written for one day of by_day
RebuiltItem(agg) ==
    [attrs |-> {"currency", "revenue", "orderCount", "payingUsers", "payingUserIds"},
     revenue |-> agg.revenue,
     orderCount |-> agg.orderCount,
     payingUsers |-> Cardinality(agg.users),
     payingUserIds |-> agg.users]

\* the rows of every organization in the range
ExistingInRangeAnyOrg(tbl, start_date, end_date, organization_id) ==
    { k \in DOMAIN tbl : DateLeq(start_date, k[2]) /\ DateLeq(k[2], end_date) }

\* "Clear existing metrics in range": the keys the range query returns
ExistingInRange(tbl, start_date, end_date, organization_id) ==
    RowsInRange(tbl, start_date, end_date, organization_id)

\* "Write rebuilt metrics": one batch of put_item. DynamoDB has no empty set:
\* a day whose orders all lack a userId makes payingUserIds an empty set, the
\* batch is rejected when the batch writer flushes on exit and the exception
\* reaches the outer except (status 500) with nothing written.
BatchAccepted(byDay) == \A day \in DOMAIN byDay : byDay[day].users # {}

WriteRebuilt(tbl, byDay, organization_id) ==
    IF ~BatchAccepted(byDay) THEN tbl
    ELSE [k \in DOMAIN tbl \cup {<<organization_id, day>> : day \in DOMAIN byDay} |->
            IF k[1] = organization_id /\ k[2] \in DOMAIN byDay
            THEN RebuiltItem(byDay[k[2]]) ELSE tbl[k]]

\* the call with the rows of the range cleared before the order log is read
RebuildResultClearingFirst(log, tbl, start_date, end_date, organization_id, index) ==
    LET old     == ExistingInRange(tbl, start_date, end_date, organization_id)
        cleared == DeleteItems(tbl, old)
        byDay   == AggregateByDay(log, CompletedInRange(log, start_date, end_date))
    IN  IF index = "missing" \/ ~DateLeq(start_date, end_date)
        THEN [status |-> 400, metrics |-> cleared]
        ELSE IF index = "error"
        THEN [status |-> 500, metrics |-> cleared]
        ELSE [status |-> IF BatchAccepted(byDay) THEN 200 ELSE 500,
              metrics |-> WriteRebuilt(cleared, byDay, organization_id)]

\* The whole call without interleaving. index is what the probe of the GSI
\* meets: "ok", "missing" (both probes raise) or "error" (the paginated query
\* raises).  BETWEEN with a lower bound above the upper one is rejected by the
\* store, so both probes raise and the call answers 400.
RebuildResult(log, tbl, start_date, end_date, organization_id, index) ==
    IF index = "missing" \/ ~DateLeq(start_date, end_date)
    THEN [status |-> 400, metrics |-> tbl]
    ELSE IF index = "error"
    THEN [status |-> 500, metrics |-> tbl]
    ELSE LET byDay   == AggregateByDay(log, CompletedInRange(log, start_date, end_date))
             old     == ExistingInRange(tbl, start_date, end_date, organization_id)
             cleared == DeleteItems(tbl, old)
         IN  [status |-> IF BatchAccepted(byDay) THEN 200 ELSE 500,
              metrics |-> WriteRebuilt(cleared, byDay, organization_id)]

----------------------------------------------------------------------------
(* cart: create_order, update_order_status, handle_payment_webhook *)

\* the item create_order stores; a total of 0 is completed at once
NewOrder(user_id, calculated_total, created_at) ==
    [userId |-> user_id,
     totalPrice |-> calculated_total,
     finalPrice |-> calculated_total,
     createdAt |-> created_at,
     status |-> IF calculated_total > 0 THEN "pending" ELSE "completed",
     paymentStatus |-> IF calculated_total > 0 THEN "pending" ELSE "free"]

\* payment_status "none" stands for None: the attribute is then left alone
OrderWithStatus(order, status, payment_status) ==
    [order EXCEPT !.status = status,
                  !.paymentStatus = IF payment_status = "none" THEN @ ELSE payment_status]

CountsForMetrics(status, payment_status) ==
    status = "completed" /\ payment_status \in {"paid", "none"}

\* how many increment_daily_metrics_for_order calls the handlers make
UpdateOrderStatusCalls(status, payment_status) ==
    IF CountsForMetrics(status, payment_status) THEN 1 ELSE 0

TotalIncCalls == SumOver(incCalls, DOMAIN incCalls)

----------------------------------------------------------------------------
(* Initial state: empty tables, nothing in progress *)

NoResp == [op |-> "none", status |-> 0]
IdleWr == [pc |-> "idle", i |-> 0, wc_num |-> 0, day |-> 0, buckets |-> <<>>]
IdleLoc == [oid |-> 0, existing |-> GetItem(<<>>, <<>>)]
IdleRb ==
    [pc |-> "idle", start |-> <<2025, 3, 10>>, end |-> <<2025, 3, 10>>,
     org |-> DefaultOrg, byDay |-> <<>>, old |-> {}]

Init ==
    /\ orders = <<>>
    /\ metrics = <<>>
    /\ incCalls = <<>>
    /\ nRebuilds = 0
    /\ resp = NoResp
    /\ pc = [p \in Procs |-> "idle"]
    /\ loc = [p \in Procs |-> IdleLoc]
    /\ rb = IdleRb
    /\ stats = <<>>
    /\ now = FirstClockDay
    /\ qver = 1
    /\ calls = <<>>
    /\ nTops = 0
    /\ wr = [p \in Procs |-> IdleWr]

LastCreatedAt == IF orders = <<>> THEN 0 ELSE orders[Len(orders)].createdAt

----------------------------------------------------------------------------
(* The handlers, each run from call to return without interleaving *)

\* cart.create_order: created_at is the clock, which never runs backwards
CreateOrder(user_id, calculated_total, created_at) ==
    /\ Len(orders) < MaxOrders
    /\ created_at >= LastCreatedAt
    /\ orders' = Append(orders, NewOrder(user_id, calculated_total, created_at))
    /\ incCalls' = Append(incCalls, 0)
    /\ resp' = [op |-> "create_order", status |-> 200]
    /\ UNCHANGED <<metrics, nRebuilds, pc, loc, rb, statsVars>>

\* cart.update_order_status: the order is updated, then re-read and counted
UpdateOrderStatus(o, status, payment_status) ==
    /\ o \in 1..Len(orders)
    /\ TotalIncCalls + UpdateOrderStatusCalls(status, payment_status) <= MaxIncrements
    /\ orders' = [orders EXCEPT ![o] = OrderWithStatus(@, status, payment_status)]
    /\ metrics' = IF CountsForMetrics(status, payment_status)
                  THEN increment_daily_metrics_for_order(metrics, orders'[o])
                  ELSE metrics
    /\ incCalls' = [incCalls EXCEPT ![o] = @ + UpdateOrderStatusCalls(status, payment_status)]
    /\ resp' = [op |-> "update_order_status", status |-> 200]
    /\ UNCHANGED <<nRebuilds, pc, loc, rb, statsVars>>

\* cart.handle_payment_webhook. code 0 stands for a missing transaction code.
\* On success update_order_status(order_id, 'completed', 'paid') runs, which
\* counts the order, and then the webhook counts the order it fetched again.
HandlePaymentWebhook(code, transfer_amount, auth_ok) ==
    /\ \/ /\ ~auth_ok
          /\ resp' = [op |-> "webhook", status |-> 401]
          /\ UNCHANGED <<orders, metrics, incCalls>>
       \/ /\ auth_ok /\ code = 0
          /\ resp' = [op |-> "webhook", status |-> 400]
          /\ UNCHANGED <<orders, metrics, incCalls>>
       \/ /\ auth_ok /\ code # 0 /\ code \notin 1..Len(orders)
          /\ resp' = [op |-> "webhook", status |-> 404]
          /\ UNCHANGED <<orders, metrics, incCalls>>
       \/ /\ auth_ok /\ code \in 1..Len(orders)
          /\ transfer_amount # orders[code].finalPrice
          /\ resp' = [op |-> "webhook", status |-> 400]
          /\ UNCHANGED <<orders, metrics, incCalls>>
       \/ /\ auth_ok /\ code \in 1..Len(orders)
          /\ transfer_amount = orders[code].finalPrice
          /\ TotalIncCalls + 2 <= MaxIncrements
          /\ orders' = [orders EXCEPT ![code] = OrderWithStatus(@, "completed", "paid")]
          /\ metrics' = increment_daily_metrics_for_order(
                            increment_daily_metrics_for_order(metrics, orders'[code]),
                            orders[code])
          /\ incCalls' = [incCalls EXCEPT ![code] = @ + 2]
          /\ resp' = [op |-> "webhook", status |-> 200]
    /\ UNCHANGED <<nRebuilds, pc, loc, rb, statsVars>>

\* metrics.rebuild_metrics_range
RebuildMetricsRange(start_date, end_date, organization_id, index) ==
    LET r == RebuildResult(orders, metrics, start_date, end_date, organization_id, index)
    IN  /\ nRebuilds < MaxRebuilds
        /\ nRebuilds' = nRebuilds + 1
        /\ metrics' = r.metrics
        /\ resp' = [op |-> "rebuild", status |-> r.status]
        /\ UNCHANGED <<orders, incCalls, pc, loc, rb, statsVars>>

\* The order flow: orders are created, paid and completed one call at a time.
Next ==
    \/ \E u \in UserIds, t \in Prices, at \in Instants : CreateOrder(u, t, at)
    \/ \E o \in 1..MaxOrders, ps \in {"paid", "none"} :
          UpdateOrderStatus(o, "completed", ps)
    \/ \E code \in 0..(MaxOrders + 1), a \in Prices, ok \in BOOLEAN :
          HandlePaymentWebhook(code, a, ok)

Spec == Init /\ [][Next]_vars

\* The order flow with rebuilds of the metrics in between.
NextRebuild ==
    \/ Next
    \/ \E s \in ModelDates, e \in ModelDates, org \in Orgs,
          index \in {"ok", "missing", "error"} :
          RebuildMetricsRange(s, e, org, index)

SpecRebuild == Init /\ [][NextRebuild]_vars

----------------------------------------------------------------------------
(* cart.apply_discount_to_order and discount.apply_discount *)

\* the active, unexpired, unrestricted codes of the discount table
DiscountCodes == {"HALF", "FREE", "OFF50K"}
\* a code get_discount_by_code does not find
UnknownCode == "NOCODE"

Discount(code) ==
    IF code = "HALF" THEN [discountType |-> "percentage", discountValue |-> 50]
    ELSE IF code = "FREE" THEN [discountType |-> "percentage", discountValue |-> 100]
    ELSE [discountType |-> "fixed", discountValue |-> 50000]

\* discount.apply_discount: new_total = max(order_total - discount_value, 0)
NewTotal(code, order_total) ==
    LET d == Discount(code)
        discount_value == IF d.discountType = "percentage"
                          THEN (order_total * d.discountValue) \div 100
                          ELSE d.discountValue
    IN  IF order_total - discount_value > 0 THEN order_total - discount_value ELSE 0

\* the update of the order: a final price of 0 completes it at once
DiscountedOrder(order, final_price_int) ==
    IF final_price_int = 0
    THEN [order EXCEPT !.finalPrice = 0, !.status = "completed", !.paymentStatus = "paid"]
    ELSE [order EXCEPT !.finalPrice = final_price_int]

\* the call with the order that becomes free counted in the metrics
ApplyDiscountResultCounting(log, tbl, o, discount_code, owner) ==
    IF o \notin 1..Len(log) THEN [status |-> 404, orders |-> log, metrics |-> tbl]
    ELSE IF ~owner THEN [status |-> 403, orders |-> log, metrics |-> tbl]
    ELSE IF log[o].status # "pending" THEN [status |-> 400, orders |-> log, metrics |-> tbl]
    ELSE IF discount_code \notin DiscountCodes
    THEN [status |-> 404, orders |-> log, metrics |-> tbl]
    ELSE [status |-> 200,
          orders |-> [log EXCEPT ![o] =
                         DiscountedOrder(@, NewTotal(discount_code, @.totalPrice))],
          metrics |-> IF NewTotal(discount_code, log[o].totalPrice) = 0
                      THEN increment_daily_metrics_for_order(tbl,
                               DiscountedOrder(log[o], 0))
                      ELSE tbl]

\* The whole call. owner says whether user_email is the userEmail of the
\* order. The discount is taken from totalPrice, whatever was applied before.
ApplyDiscountResult(log, tbl, o, discount_code, owner) ==
    IF o \notin 1..Len(log) THEN [status |-> 404, orders |-> log, metrics |-> tbl]
    ELSE IF ~owner THEN [status |-> 403, orders |-> log, metrics |-> tbl]
    ELSE IF log[o].status # "pending" THEN [status |-> 400, orders |-> log, metrics |-> tbl]
    ELSE IF discount_code \notin DiscountCodes
    THEN [status |-> 404, orders |-> log, metrics |-> tbl]
    ELSE [status |-> 200,
          orders |-> [log EXCEPT ![o] =
                         DiscountedOrder(@, NewTotal(discount_code, @.totalPrice))],
          metrics |-> tbl]

\* lambda_function 'applyDiscountToOrder' -> cart.apply_discount_to_order
ApplyDiscountToOrder(o, discount_code, owner) ==
    LET r == ApplyDiscountResult(orders, metrics, o, discount_code, owner)
    IN  /\ orders' = r.orders
        /\ metrics' = r.metrics
        /\ resp' = [op |-> "apply_discount", status |-> r.status]
        /\ UNCHANGED <<incCalls, nRebuilds, pc, loc, rb, statsVars>>

\* Orders are created, discounted and completed, with rebuilds in between.
NextDiscount ==
    \/ \E u \in UserIds, t \in {0, 100000}, at \in Instants : CreateOrder(u, t, at)
    \/ \E o \in 1..(MaxOrders + 1), code \in DiscountCodes \cup {UnknownCode},
          owner \in BOOLEAN : ApplyDiscountToOrder(o, code, owner)
    \/ \E o \in 1..MaxOrders : UpdateOrderStatus(o, "completed", "paid")
    \/ \E s \in ModelDates, e \in ModelDates :
          RebuildMetricsRange(s, e, DefaultOrg, "ok")

SpecDiscount == Init /\ [][NextDiscount]_vars

----------------------------------------------------------------------------
(* Concurrent invocations: every store operation is one step *)

InFlight == Cardinality({p \in Procs : pc[p] # "idle"})

\* update_order_status(o, 'completed', 'paid') up to the call of
\* increment_daily_metrics_for_order: the order is updated and read back.
\* An order without userId makes the increment return before any store call.
UosStart(p, o) ==
    /\ pc[p] = "idle"
    /\ o \in 1..Len(orders)
    /\ TotalIncCalls + InFlight < MaxIncrements
    /\ orders' = [orders EXCEPT ![o] = OrderWithStatus(@, "completed", "paid")]
    /\ IF orders[o].userId = NoUser
       THEN /\ incCalls' = [incCalls EXCEPT ![o] = @ + 1]
            /\ UNCHANGED <<pc, loc>>
       ELSE /\ pc' = [pc EXCEPT ![p] = "inc_get"]
            /\ loc' = [loc EXCEPT ![p] = [oid |-> o, existing |-> IdleLoc.existing]]
            /\ UNCHANGED incCalls
    /\ UNCHANGED <<metrics, nRebuilds, resp, rb, statsVars>>

\* existing = metrics_table.get_item(..).get("Item")
IncGet(p) ==
    /\ pc[p] = "inc_get"
    /\ loc' = [loc EXCEPT ![p].existing = GetItem(metrics, MetricsKey(orders[loc[p].oid]))]
    /\ pc' = [pc EXCEPT ![p] = "inc_write"]
    /\ UNCHANGED <<orders, metrics, incCalls, nRebuilds, resp, rb, statsVars>>

\* put_item or update_item, decided by what get_item returned; then both
\* handlers return
IncWrite(p) ==
    /\ pc[p] = "inc_write"
    /\ metrics' = IncrementWrite(metrics, orders[loc[p].oid], loc[p].existing)
    /\ incCalls' = [incCalls EXCEPT ![loc[p].oid] = @ + 1]
    /\ pc' = [pc EXCEPT ![p] = "idle"]
    /\ loc' = [loc EXCEPT ![p] = IdleLoc]
    /\ UNCHANGED <<orders, nRebuilds, resp, rb, statsVars>>

\* rebuild_metrics_range, found index and a valid range: the order log is
\* queried and aggregated
RbQuery(start_date, end_date, organization_id) ==
    /\ rb.pc = "idle"
    /\ nRebuilds < MaxRebuilds
    /\ nRebuilds' = nRebuilds + 1
    /\ DateLeq(start_date, end_date)
    /\ rb' = [pc |-> "scan", start |-> start_date, end |-> end_date,
              org |-> organization_id,
              byDay |-> AggregateByDay(orders, CompletedInRange(orders, start_date, end_date)),
              old |-> {}]
    /\ UNCHANGED <<orders, metrics, incCalls, resp, pc, loc, statsVars>>

\* existing = metrics_table.query(..)
RbScan ==
    /\ rb.pc = "scan"
    /\ rb' = [rb EXCEPT !.pc = "delete",
                        !.old = ExistingInRange(metrics, rb.start, rb.end, rb.org)]
    /\ UNCHANGED <<orders, metrics, incCalls, nRebuilds, resp, pc, loc, statsVars>>

\* the batch of delete_item
RbDelete ==
    /\ rb.pc = "delete"
    /\ metrics' = DeleteItems(metrics, rb.old)
    /\ rb' = [rb EXCEPT !.pc = "write", !.old = {}]
    /\ UNCHANGED <<orders, incCalls, nRebuilds, resp, pc, loc, statsVars>>

\* the batch of put_item, and the return
RbWrite ==
    /\ rb.pc = "write"
    /\ metrics' = WriteRebuilt(metrics, rb.byDay, rb.org)
    /\ resp' = [op |-> "rebuild", status |-> IF BatchAccepted(rb.byDay) THEN 200 ELSE 500]
    /\ rb' = IdleRb
    /\ UNCHANGED <<orders, incCalls, nRebuilds, pc, loc, statsVars>>

Quiescent == InFlight = 0 /\ rb.pc = "idle"

\* Concurrent completions of orders; an order is created while no completion
\* is in progress.
NextConc ==
    \/ \E u \in UserIds, t \in Prices, at \in Instants : Quiescent /\ CreateOrder(u, t, at)
    \/ \E p \in Procs, o \in 1..MaxOrders : UosStart(p, o)
    \/ \E p \in Procs : IncGet(p)
    \/ \E p \in Procs : IncWrite(p)

SpecConc == Init /\ [][NextConc]_vars

\* Concurrent completions of orders while a rebuild runs.
NextConcRebuild ==
    \/ NextConc
    \/ \E s \in ModelDates, e \in ModelDates : RbQuery(s, e, DefaultOrg)
    \/ RbScan
    \/ RbDelete
    \/ RbWrite

SpecConcRebuild == Init /\ [][NextConcRebuild]_vars

----------------------------------------------------------------------------
(* question_uploader: the wrong-answer statistics *)

\* Strings the code takes apart or puts together are sequences of tokens: a
\* digit is one token, and so are "#", "-", "-W" and a name such as "qs1".
DigitChars == <<"0", "1", "2", "3", "4", "5", "6", "7", "8", "9">>
IsDigit(c) == \E d \in 1..Len(DigitChars) : DigitChars[d] = c
DigitOf(c) == (CHOOSE d \in 1..Len(DigitChars) : DigitChars[d] = c) - 1

\* str(n) and "%d" for n >= 0
RECURSIVE Str(_)
Str(n) ==
    IF n < Len(DigitChars) THEN <<DigitChars[n + 1]>>
    ELSE Str(n \div Len(DigitChars)) \o <<DigitChars[(n % Len(DigitChars)) + 1]>>

\* str.zfill(width), and the :02d of an f-string for n >= 0
RECURSIVE ZFill(_, _)
ZFill(s, width) == IF Len(s) >= width THEN s ELSE ZFill(<<"0">> \o s, width)

\* int(s) for a run of digits
RECURSIVE DigitsValue(_)
DigitsValue(s) ==
    IF s = <<>> THEN 0
    ELSE Len(DigitChars) * DigitsValue(SubSeq(s, 1, Len(s) - 1)) + DigitOf(s[Len(s)])

\* _now_periods: the week and month periods of the clock
WeekPeriod(day) ==
    LET iso == IsoCalendar(day)
    IN  Str(iso[1]) \o <<"-W">> \o ZFill(Str(iso[2]), 2)

MonthPeriod(day) ==
    LET date == CivilFromDays(day)
    IN  ZFill(Str(date[1]), 4) \o <<"-">> \o ZFill(Str(date[2]), 2)

AllBucket == <<"ALL">>
WeekBucket(day) == <<"WEEK:">> \o WeekPeriod(day)
MonthBucket(day) == <<"MONTH:">> \o MonthPeriod(day)

\* a week bucket named after the calendar year of the day
BucketsOfCalendarYear(day) ==
    << AllBucket,
       <<"WEEK:">> \o Str(CivilFromDays(day)[1]) \o <<"-W">>
           \o ZFill(Str(IsoCalendar(day)[2]), 2),
       MonthBucket(day) >>

\* the buckets without the one of the month
BucketsWithoutMonth(day) == << AllBucket, WeekBucket(day) >>

\* buckets = ['ALL', f'WEEK:{week_period}', f'MONTH:{month_period}']
Buckets(day) == << AllBucket, WeekBucket(day), MonthBucket(day) >>


\* The stored question set "qs1": NSingle questions with one answer-mapping
\* entry, then one with none and one with two.  Its content has two versions;
\* in the second, question 1 has gained a second answer-mapping entry and all
\* texts differ.  "qs0" has a metadata item without s3Key, "qs9" has none.
Qs1 == <<"qs1">>
QsNoData == <<"qs0">>
QsUnknown == <<"qs9">>
NoQs == <<>>

NQuestions == NSingle + 2

\* correctValue: a scalar, a list or None, by question
CorrectValue(idx, ver) ==
    [kind |-> CASE idx % 3 = 0 -> "scalar" [] idx % 3 = 1 -> "list" [] OTHER -> "none",
     dumps |-> <<"json", idx, ver>>,
     str |-> <<"str", idx, ver>>]

Mapping(idx, ver) ==
    [correctValue |-> CorrectValue(idx, ver),
     explanation |-> IF idx = 2 THEN <<>> ELSE <<"explanation", idx, ver>>,
     selector |-> <<"selector", idx, ver>>]

AnswerMapping(idx, ver) ==
    IF idx = NSingle THEN <<>>
    ELSE IF idx = NSingle + 1 \/ (idx = 1 /\ ver = 2)
    THEN <<Mapping(idx, ver), Mapping(idx, ver)>>
    ELSE <<Mapping(idx, ver)>>

\* qset['questions'] and qset['title'] as read from S3
Questions(ver) ==
    [i \in 1..NQuestions |->
        [htmlContent |-> <<"html", i - 1, ver>>,
         answerMapping |-> AnswerMapping(i - 1, ver)]]

Title(ver) == <<"title", ver>>

\* collection_table: "c1" holds qs1, "c2" does not
NoCollection == ""
Collections ==
    [c \in {"c1", "c2"} |->
        [name |-> IF c = "c1" THEN <<"Collection one">> ELSE <<"Collection two">>,
         questionSets |-> IF c = "c1" THEN {Qs1} ELSE {}]]

\* collection_name: the collection_id given, else any collection holding the set
CollectionName(collection_id, question_set_id) ==
    LET direct == IF collection_id \in DOMAIN Collections
                  THEN Collections[collection_id].name ELSE <<>>
        holding == {c \in DOMAIN Collections :
                        question_set_id \in Collections[c].questionSets}
    IN  IF direct # <<>> THEN direct
        ELSE IF holding # {} THEN Collections[CHOOSE c \in holding : TRUE].name
        ELSE <<>>

\* idx_part.split('#')[-1] when '#' is in the string, else the string
LastPart(s) ==
    LET hashes == {i \in 1..Len(s) : s[i] = "#"}
    IN  IF hashes = {} THEN s
        ELSE SubSeq(s, (CHOOSE i \in hashes : \A j \in hashes : j <= i) + 1, Len(s))

\* qidx = int(idx_part): an optional sign and digits, else ValueError
ParseIndex(raw) ==
    LET part   == LastPart(raw)
        signed == part # <<>> /\ part[1] \in {"-", "+"}
        body   == IF signed THEN Tail(part) ELSE part
        ok     == body # <<>> /\ \A i \in 1..Len(body) : IsDigit(body[i])
    IN  [ok |-> ok,
         qidx |-> IF ~ok THEN 0
                  ELSE IF signed /\ part[1] = "-" THEN 0 - DigitsValue(body)
                  ELSE DigitsValue(body)]

\* a question with any number of answer-mapping entries but none is tracked
IsTrackedWhenMapped(questions, qidx) ==
    /\ qidx >= 0 /\ qidx < Len(questions)
    /\ Len(questions[qidx + 1].answerMapping) >= 1

\* the range check and "Only track when single mapping"
IsTracked(questions, qidx) ==
    /\ qidx >= 0 /\ qidx < Len(questions)
    /\ Len(questions[qidx + 1].answerMapping) = 1

\* "Normalize correct answer to string for quick rendering"
CorrectAnswerText(cv) ==
    IF cv.kind \in {"list", "dict"} THEN cv.dumps
    ELSE IF cv.kind = "none" THEN <<>>
    ELSE cv.str

\* the values a call offers for the snapshot fields of question qidx
SnapshotValues(questions, title, collection_id, collection_name, qidx) ==
    LET q == questions[qidx + 1]
        m == q.answerMapping[1]
    IN  [title |-> title,
         collectionId |-> collection_id,
         collectionName |-> collection_name,
         html |-> q.htmlContent,
         correctAnswer |-> CorrectAnswerText(m.correctValue),
         explanation |-> m.explanation,
         selector |-> m.selector]

QuestionId(question_set_id, qidx) == question_set_id \o <<"#">> \o Str(qidx)


\* What the store does to the calls of one record_wrong_answers invocation:
\* "none": every call succeeds; "all": every update_item of the counters
\* raises; "week": those on the WEEK bucket raise; "mirror": the read-back or
\* the write of the padded mirror raises.
UpdateFails(fault, b) == fault = "all" \/ (fault = "week" /\ b[1] = "WEEK:")
MirrorFails(fault) == fault = "mirror"

MirrorWidth == 12
NoMirror == <<>>                    \* the row has no wrongCount attribute

\* the counters update with every snapshot field overwritten by the call's value
UpsertOverwriting(tbl, key, question_set_id, qidx, snap) ==
    LET fresh == [question_set_id |-> question_set_id,
                  question_index |-> qidx,
                  title |-> snap.title,
                  collectionId |-> snap.collectionId,
                  collectionName |-> snap.collectionName,
                  html |-> snap.html,
                  correctAnswer |-> snap.correctAnswer,
                  explanation |-> snap.explanation,
                  selector |-> snap.selector,
                  wrongCountNum |-> 1,
                  wrongCount |-> NoMirror]
    IN  IF key \in DOMAIN tbl
        THEN [tbl EXCEPT ![key] = [fresh EXCEPT !.wrongCountNum = tbl[key].wrongCountNum + 1,
                                                !.wrongCount = tbl[key].wrongCount]]
        ELSE tbl @@ (key :> fresh)

\* the counters update with the counter set to one instead of incremented
UpsertResetting(tbl, key, question_set_id, qidx, snap) ==
    IF key \in DOMAIN tbl
    THEN [tbl EXCEPT ![key] = [@ EXCEPT !.question_set_id = question_set_id,
                                        !.question_index = qidx,
                                        !.wrongCountNum = 1]]
    ELSE UpsertOverwriting(tbl, key, question_set_id, qidx, snap)

\* update_item: question_set_id and question_index are set, every snapshot
\* field is set if_not_exists, wrongCountNum is if_not_exists(.., 0) + 1.
\* A row that exists has every snapshot field, since only this call writes rows.
Upsert(tbl, key, question_set_id, qidx, snap) ==
    IF key \in DOMAIN tbl
    THEN [tbl EXCEPT ![key] = [@ EXCEPT !.question_set_id = question_set_id,
                                        !.question_index = qidx,
                                        !.wrongCountNum = @ + 1]]
    ELSE UpsertOverwriting(tbl, key, question_set_id, qidx, snap)

\* SET wrongCount = :wc, with wc_str = str(int(wc_num)).zfill(12)
WriteMirror(tbl, key, wc_num) ==
    [tbl EXCEPT ![key].wrongCount = ZFill(Str(wc_num), MirrorWidth)]

\* get_item, then SET wrongCount = str(int(wrongCountNum)).zfill(12)
SetMirror(tbl, key) == WriteMirror(tbl, key, tbl[key].wrongCountNum)

\* "for b in buckets" for one question, up to and including bucket i
RECURSIVE RecordBuckets(_, _, _, _, _, _, _)
RecordBuckets(st, fault, buckets, i, question_set_id, qidx, snap) ==
    IF i = 0 THEN [st EXCEPT !.success_any = FALSE]
    ELSE LET before == RecordBuckets(st, fault, buckets, i - 1, question_set_id, qidx, snap)
             b      == buckets[i]
             key    == <<b, QuestionId(question_set_id, qidx)>>
             up     == Upsert(before.tbl, key, question_set_id, qidx, snap)
         IN  IF UpdateFails(fault, b)
             THEN [before EXCEPT !.errors = Append(@, key)]
             ELSE [before EXCEPT !.tbl = IF MirrorFails(fault) THEN up
                                         ELSE SetMirror(up, key),
                                 !.success_any = TRUE]

\* "for raw in question_ids", up to and including entry i
RECURSIVE RecordQuestions(_, _, _, _, _, _, _, _, _)
RecordQuestions(st, fault, buckets, question_ids, i, question_set_id, questions, title, coll) ==
    IF i = 0 THEN st
    ELSE LET before == RecordQuestions(st, fault, buckets, question_ids, i - 1,
                                       question_set_id, questions, title, coll)
             parsed == ParseIndex(question_ids[i])
             qidx   == parsed.qidx
             snap   == SnapshotValues(questions, title, coll.id, coll.name, qidx)
             done   == RecordBuckets(before, fault, buckets, Len(buckets),
                                     question_set_id, qidx, snap)
         IN  IF ~parsed.ok \/ ~IsTracked(questions, qidx) THEN before
             ELSE IF done.success_any
             THEN [done EXCEPT !.updated = @ + 1,
                               !.updated_ids =
                                   Append(@, QuestionId(question_set_id, qidx))]
             ELSE done

\* question_set_table.get_item(Key={'uid': question_set_id}).get('Item'):
\* "qs1" is stored with its s3Key, "qs0" is stored without one
MetaItem(question_set_id) ==
    [found |-> question_set_id \in {Qs1, QsNoData},
     s3Key |-> IF question_set_id = Qs1 THEN "question-sets/qs1.json" ELSE ""]

ResolvedWhenFound(question_set_id) == MetaItem(question_set_id).found

\* neither "if not meta" nor "if not s3_key" returns 404
Resolved(question_set_id) ==
    MetaItem(question_set_id).found /\ MetaItem(question_set_id).s3Key # ""

\* the status with 200 for a call that recorded nothing and met no error
StatusOkWhenNothing(updated, errors) ==
    IF errors = <<>> THEN 200 ELSE IF updated > 0 THEN 207 ELSE 500

StatusAllOrNothing(updated, errors) ==
    IF updated > 0 /\ errors = <<>> THEN 200 ELSE 500

\* status = 200 if updated > 0 and len(errors) == 0 else (207 if updated > 0 else 500)
StatusOf(updated, errors) ==
    IF updated > 0 /\ errors = <<>> THEN 200
    ELSE IF updated > 0 THEN 207 ELSE 500

\* record_wrong_answers: the status, the body and the table it leaves
record_wrong_answers(tbl, day, ver, question_set_id, question_ids, collection_id, fault) ==
    LET none == [updated |-> 0, updated_ids |-> <<>>, errors |-> <<>>]
    IN  IF question_set_id = NoQs \/ question_ids = <<>>
        THEN [status |-> 400, body |-> none, tbl |-> tbl]
        ELSE IF ~Resolved(question_set_id)
        THEN [status |-> 404,
              body |-> [error |-> IF MetaItem(question_set_id).found
                                  THEN "Question set data missing"
                                  ELSE "Question set not found"],
              tbl |-> tbl]
        ELSE LET coll == [id |-> collection_id,
                          name |-> CollectionName(collection_id, question_set_id)]
                 st == RecordQuestions(
                           [tbl |-> tbl, success_any |-> FALSE, updated |-> 0,
                            updated_ids |-> <<>>, errors |-> <<>>],
                           fault, Buckets(day), question_ids, Len(question_ids),
                           question_set_id,
                           Questions(ver), Title(ver), coll)
             IN  [status |-> StatusOf(st.updated, st.errors),
                  body |-> [updated |-> st.updated, updated_ids |-> st.updated_ids,
                            errors |-> st.errors],
                  tbl |-> st.tbl]


\* a < b for the strings a and b of digits, as the index orders its range key
RECURSIVE LexLess(_, _)
LexLess(a, b) ==
    IF b = <<>> THEN FALSE
    ELSE IF a = <<>> THEN TRUE
    ELSE IF a[1] # b[1] THEN DigitOf(a[1]) < DigitOf(b[1])
    ELSE LexLess(Tail(a), Tail(b))

\* The store fixes no order among rows with equal counters: tie says whether
\* it hands them out by ascending or by descending question index.
TieOrders == {"asc", "desc"}
TieBefore(tbl, j, k, tie) ==
    IF tie = "asc" THEN tbl[j].question_index < tbl[k].question_index
    ELSE tbl[j].question_index > tbl[k].question_index

\* row j comes before row k: by the wrongCount string on the index, by
\* int(wrongCountNum) in items.sort, largest first
RowBefore(tbl, j, k, tie, byMirror) ==
    IF byMirror
    THEN \/ LexLess(tbl[k].wrongCount, tbl[j].wrongCount)
         \/ tbl[j].wrongCount = tbl[k].wrongCount /\ TieBefore(tbl, j, k, tie)
    ELSE \/ tbl[j].wrongCountNum > tbl[k].wrongCountNum
         \/ tbl[j].wrongCountNum = tbl[k].wrongCountNum /\ TieBefore(tbl, j, k, tie)

\* the rows of keys in that order
RECURSIVE Ranked(_, _, _, _)
Ranked(tbl, keys, tie, byMirror) ==
    IF keys = {} THEN <<>>
    ELSE LET k    == CHOOSE x \in keys : TRUE
             rest == Ranked(tbl, keys \ {k}, tie, byMirror)
             n    == Cardinality({i \in 1..Len(rest) :
                                     RowBefore(tbl, rest[i], k, tie, byMirror)})
         IN  SubSeq(rest, 1, n) \o <<k>> \o SubSeq(rest, n + 1, Len(rest))

NotTruncated(items, n) == items

\* Limit=eff_limit of the query, items[: eff_limit] and items[: 10]
Truncate(items, n) == SubSeq(items, 1, IF Len(items) < n THEN Len(items) ELSE n)

eff_limit == 10
ScanCap == 10

\* query on bucket-wrongCount-index with ScanIndexForward=False: the rows of
\* the bucket that have the wrongCount attribute, largest first
IndexQuery(tbl, bucket, tie) ==
    Truncate(Ranked(tbl, {k \in DOMAIN tbl : k[1] = bucket /\ tbl[k].wrongCount # NoMirror},
                    tie, TRUE),
             eff_limit)

\* scan filtered by bucket, then items.sort(key=int(wrongCountNum), reverse=True)
ScanSorted(tbl, bucket, tie) ==
    Ranked(tbl, {k \in DOMAIN tbl : k[1] = bucket}, tie, FALSE)

\* one entry of results
ResultRow(tbl, key) ==
    [questionId |-> key[2],
     questionSetId |-> tbl[key].question_set_id,
     questionIndex |-> tbl[key].question_index,
     title |-> tbl[key].title,
     wrongCount |-> tbl[key].wrongCountNum,
     html |-> tbl[key].html,
     correctAnswer |-> tbl[key].correctAnswer,
     explanation |-> tbl[key].explanation,
     selector |-> tbl[key].selector,
     collectionId |-> tbl[key].collectionId,
     collectionName |-> tbl[key].collectionName]

Periods == {"WEEK", "MONTH", "ALL"}
Limits == {5, 20}

\* the bucket of the period on the first day of the clock
BucketOfFirstDay(day, period) ==
    IF period = "ALL" THEN AllBucket
    ELSE IF period = "MONTH" THEN MonthBucket(FirstClockDay)
    ELSE WeekBucket(FirstClockDay)

CurrentBucket(day, period) ==
    IF period = "ALL" THEN AllBucket
    ELSE IF period = "MONTH" THEN MonthBucket(day)
    ELSE WeekBucket(day)

\* the response for the rows items, found on path
TopBody(tbl, bucket, items, path) ==
    [status |-> 200,
     questions |-> [i \in 1..Len(items) |-> ResultRow(tbl, items[i])],
     bucket |-> bucket, path |-> path]

\* the scan of the fallbacks, cut to cap
ScanItems(tbl, bucket, tie, cap) == Truncate(ScanSorted(tbl, bucket, tie), cap)

\* the query without the scan made when the index raises
TopOfBucketNoFallback(tbl, bucket, indexed, index, scan, tie) ==
    IF index = "error"
    THEN [status |-> 500, questions |-> <<>>, bucket |-> bucket,
          path |-> "index error"]
    ELSE IF indexed = <<>>
    THEN IF scan = "error" THEN TopBody(tbl, bucket, <<>>, "scan after empty index")
         ELSE TopBody(tbl, bucket, ScanItems(tbl, bucket, tie, eff_limit),
                      "scan after empty index")
    ELSE TopBody(tbl, bucket, indexed, "index")

\* What follows the query on the index.  index and scan say whether the query
\* on the index and the scan answer ("ok") or raise ("error"); indexed is what
\* the index returned.  A scan that raises after an empty answer of the index
\* is passed over; after a failed query it makes the call answer 500.
TopOfBucket(tbl, bucket, indexed, index, scan, tie) ==
    IF index = "error"
    THEN IF scan = "error"
         THEN [status |-> 500, questions |-> <<>>, bucket |-> bucket,
               path |-> "scan after index error"]
         ELSE TopBody(tbl, bucket, ScanItems(tbl, bucket, tie, ScanCap),
                      "scan after index error")
    ELSE IF indexed = <<>>
    THEN IF scan = "error"
         THEN TopBody(tbl, bucket, <<>>, "scan after empty index")
         ELSE TopBody(tbl, bucket, ScanItems(tbl, bucket, tie, eff_limit),
                      "scan after empty index")
    ELSE TopBody(tbl, bucket, indexed, "index")

\* the call on the bucket of the period
TopOfPeriod(tbl, bucket, index, scan, tie) ==
    TopOfBucket(tbl, bucket, IndexQuery(tbl, bucket, tie), index, scan, tie)

\* the call with the list cut to the limit of the caller
TopCutToLimit(tbl, day, period, limit, index, scan, tie) ==
    LET r == TopOfPeriod(tbl, CurrentBucket(day, period), index, scan, tie)
    IN  [r EXCEPT !.questions = Truncate(r.questions, limit)]

\* get_top_wrong_questions: limit is not used
get_top_wrong_questions(tbl, day, period, limit, index, scan, tie) ==
    TopOfPeriod(tbl, CurrentBucket(day, period), index, scan, tie)

\* the question_ids a caller sends
Bare(qidx) == Str(qidx)
Composite(qidx) == Qs1 \o <<"#">> \o Str(qidx)
Once == << Bare(0) >>
Twice == << Bare(0), Composite(0) >>
Batch == [i \in 1..NSingle |-> Bare(i - 1)]
Mixed == << <<"abc">>, Bare(NSingle), Composite(NSingle + 1), Bare(NQuestions),
            <<"-", "1">>, <<>>, Bare(1) >>
Untracked == << Bare(NSingle + 1), <<"x", "#", "y">> >>

Request(question_set_id, question_ids, collection_id, fault) ==
    [question_set_id |-> question_set_id, question_ids |-> question_ids,
     collection_id |-> collection_id, fault |-> fault]

\* the calls of record_wrong_answers, with what the store does during each
RecordRequests ==
    { Request(Qs1, Once, NoCollection, "none"),
      Request(Qs1, Once, "c2", "none"),
      Request(Qs1, Twice, NoCollection, "none"),
      Request(Qs1, Batch, NoCollection, "none"),
      Request(Qs1, Mixed, "c2", "none"),
      Request(Qs1, Untracked, NoCollection, "none"),
      Request(Qs1, Once, NoCollection, "week"),
      Request(Qs1, Batch, NoCollection, "week"),
      Request(Qs1, Mixed, NoCollection, "all"),
      Request(Qs1, Batch, NoCollection, "mirror"),
      Request(Qs1, <<>>, NoCollection, "none"),
      Request(NoQs, Once, NoCollection, "none"),
      Request(QsUnknown, Once, NoCollection, "none"),
      Request(QsNoData, Batch, "c2", "none") }

\* the clock moves on
Tick(day) ==
    /\ day > now
    /\ now' = day
    /\ UNCHANGED <<metricsVars, resp, stats, qver, calls, nTops, wr>>

\* the stored question set is replaced by its second version
EditQuestionSet ==
    /\ qver = 1
    /\ qver' = 2
    /\ UNCHANGED <<metricsVars, resp, stats, now, calls, nTops, wr>>

\* lambda_function 'recordWrongAnswers' -> record_wrong_answers
RecordWrongAnswers(question_set_id, question_ids, collection_id, fault) ==
    LET r == record_wrong_answers(stats, now, qver, question_set_id, question_ids,
                                  collection_id, fault)
    IN  /\ Len(calls) < MaxRecords
        /\ stats' = r.tbl
        /\ resp' = [op |-> "record", status |-> r.status, body |-> r.body]
        /\ calls' = IF r.status \in {400, 404} THEN calls
                    ELSE Append(calls, [day |-> now, ver |-> qver,
                                        question_set_id |-> question_set_id,
                                        question_ids |-> question_ids,
                                        collection_id |-> collection_id,
                                        status |-> r.status,
                                        errors |-> Len(r.body.errors)])
        /\ UNCHANGED <<metricsVars, now, qver, nTops, wr>>

\* lambda_function 'getTopWrongQuestions' -> get_top_wrong_questions
GetTopWrongQuestions(period, limit, index, scan, tie) ==
    /\ nTops < MaxTops
    /\ nTops' = nTops + 1
    /\ resp' = [op |-> "top", limit |-> limit,
                result |-> get_top_wrong_questions(stats, now, period, limit, index,
                                                   scan, tie)]
    /\ UNCHANGED <<metricsVars, stats, now, qver, calls, wr>>

\* Wrong answers are recorded while the clock moves and the set is edited.
NextStats ==
    \/ \E day \in ClockDays : Tick(day)
    \/ EditQuestionSet
    \/ \E r \in RecordRequests :
          RecordWrongAnswers(r.question_set_id, r.question_ids, r.collection_id, r.fault)

SpecStats == Init /\ [][NextStats]_vars

\* the calls of record_wrong_answers made between the queries of the ranking
TopRequests ==
    { Request(Qs1, Once, NoCollection, "none"),
      Request(Qs1, Once, NoCollection, "mirror"),
      Request(Qs1, Twice, NoCollection, "none"),
      Request(Qs1, Batch, NoCollection, "none"),
      Request(Qs1, Batch, NoCollection, "mirror"),
      Request(Qs1, Mixed, "c2", "none") }

\* Wrong answers are recorded and the ranking is queried while the clock moves.
NextTop ==
    \/ \E day \in ClockDays : Tick(day)
    \/ \E r \in TopRequests :
          RecordWrongAnswers(r.question_set_id, r.question_ids, r.collection_id, r.fault)
    \/ \E period \in Periods, limit \in Limits, index \in {"ok", "error"},
          scan \in {"ok", "error"}, tie \in TieOrders :
          GetTopWrongQuestions(period, limit, index, scan, tie)

SpecTop == Init /\ [][NextTop]_vars

----------------------------------------------------------------------------
(* Properties of the daily metrics *)

DayOf(o) == _to_iso_date_from_epoch(orders[o].createdAt)

\* the orders of date d for which increment_daily_metrics_for_order was called
IncrementedOn(d) == {o \in 1..Len(orders) : incCalls[o] > 0 /\ DayOf(o) = d}

PriceOfOrder == [o \in 1..Len(orders) |-> orders[o].finalPrice]

DayRow(tbl, key) == GetItem(tbl, key).item

\* every call made for date d was for another order of user u
SameUserOnce(d, u) ==
    /\ IncrementedOn(d) # {}
    /\ \A o \in IncrementedOn(d) : incCalls[o] = 1 /\ orders[o].userId = u

\* C1: after calls made one after another for distinct orders of one user on
\* one UTC date, the day row has payingUsers = 1, orderCount = the number of
\* orders and revenue = the sum of their final prices, and get_metrics_series
\* over that date returns exactly that one point.
C1_SameDayPayerDedup ==
    \A d \in ModelDates, u \in Users :
        SameUserOnce(d, u) =>
            LET k == <<DefaultOrg, d>>
                S == IncrementedOn(d)
            IN  /\ k \in DOMAIN metrics
                /\ metrics[k].payingUsers = 1
                /\ metrics[k].payingUserIds = {u}
                /\ metrics[k].orderCount = Cardinality(S)
                /\ metrics[k].revenue = SumOver(PriceOfOrder, S)
                /\ get_metrics_series(metrics, d, d, DefaultOrg) =
                       << [date |-> d,
                           revenue |-> SumOver(PriceOfOrder, S),
                           orderCount |-> Cardinality(S),
                           payingUsers |-> 1] >>

\* two orders of one user on one date have been counted
C1_Witness ==
    \E d \in ModelDates, u \in Users :
        /\ SameUserOnce(d, u)
        /\ Cardinality(IncrementedOn(d)) >= 2
        /\ DayRow(metrics, <<DefaultOrg, d>>).orderCount = 2

\* C2: a successful handle_payment_webhook for a pending order adds exactly 1
\* to orderCount and exactly the order's final price to revenue of the day
\* row of the order's creation date.
C2_WebhookCountsOnce ==
    [][ \A code \in 1..MaxOrders :
          ( /\ code <= Len(orders)
            /\ orders[code].status = "pending"
            /\ orders[code].userId # NoUser
            /\ HandlePaymentWebhook(code, orders[code].finalPrice, TRUE)
            /\ resp'.status = 200 )
          => LET k == MetricsKey(orders[code])
             IN  /\ DayRow(metrics', k).orderCount = DayRow(metrics, k).orderCount + 1
                 /\ DayRow(metrics', k).revenue =
                        DayRow(metrics, k).revenue + orders[code].finalPrice
      ]_vars

\* C3: once every concurrent invocation for distinct orders of one date has
\* finished, the day row counts every order: orderCount is their number and
\* revenue the sum of their amounts.
C3_NoLostContribution ==
    (\A p \in Procs : pc[p] = "idle") =>
        \A d \in ModelDates :
            LET S == IncrementedOn(d)
            IN  ( /\ S # {}
                  /\ \A o \in S : incCalls[o] = 1 /\ orders[o].userId \in Users )
                => /\ <<DefaultOrg, d>> \in DOMAIN metrics
                   /\ metrics[<<DefaultOrg, d>>].orderCount = Cardinality(S)
                   /\ metrics[<<DefaultOrg, d>>].revenue = SumOver(PriceOfOrder, S)

\* C4: in every reachable state every day row has payingUsers equal to the
\* cardinality of payingUserIds, under any interleaving of the increments
\* and of a rebuild.
C4_PayingUsersIsCardinality ==
    \A k \in DOMAIN metrics :
        metrics[k].payingUsers = Cardinality(metrics[k].payingUserIds)

\* two invocations for the same user and day have both read the same existing
\* row, which does not hold the user, and are both about to write
C4_Witness ==
    \E p \in Procs, q \in Procs :
        /\ p # q
        /\ pc[p] = "inc_write" /\ pc[q] = "inc_write"
        /\ orders[loc[p].oid].userId = orders[loc[q].oid].userId
        /\ DayOf(loc[p].oid) = DayOf(loc[q].oid)
        /\ loc[p].existing.found /\ loc[q].existing.found
        /\ is_new_user_today(loc[p].existing, orders[loc[p].oid].userId)
        /\ is_new_user_today(loc[q].existing, orders[loc[q].oid].userId)
        /\ MetricsKey(orders[loc[p].oid]) \in DOMAIN metrics

\* the completed orders of the order log created on date d
CompletedOn(d) ==
    {o \in 1..Len(orders) : orders[o].status = "completed" /\ DayOf(o) = d}

----------------------------------------------------------------------------
(* Properties of the wrong-answer statistics *)

\* question idx of the stored set has exactly one answer-mapping entry
IsSingleMapped(ver, idx) ==
    /\ idx \in 0..(NQuestions - 1)
    /\ Len(Questions(ver)[idx + 1].answerMapping) = 1

SingleMapped(ver) == {idx \in 0..(NQuestions - 1) : IsSingleMapped(ver, idx)}

\* entry raw of question_ids names the single-mapping question of row id qid
Names(question_set_id, raw, ver, qid) ==
    /\ ParseIndex(raw).ok
    /\ IsSingleMapped(ver, ParseIndex(raw).qidx)
    /\ QuestionId(question_set_id, ParseIndex(raw).qidx) = qid

\* the entries of question_ids that name the single-mapping question of row id qid
EntriesNaming(question_set_id, question_ids, ver, qid) ==
    {i \in 1..Len(question_ids) : Names(question_set_id, question_ids[i], ver, qid)}

\* the buckets of the three days of the clock, from the calendar:
\* 2024-12-29 is the Sunday of ISO week 52 of 2024, 2024-12-30 the Monday of
\* ISO week 1 of 2025
CalendarBuckets(day) ==
    IF day = DaysFromCivil(<<2024, 12, 29>>)
    THEN { <<"ALL">>,
           <<"WEEK:", "2", "0", "2", "4", "-W", "5", "2">>,
           <<"MONTH:", "2", "0", "2", "4", "-", "1", "2">> }
    ELSE IF day = DaysFromCivil(<<2024, 12, 30>>)
    THEN { <<"ALL">>,
           <<"WEEK:", "2", "0", "2", "5", "-W", "0", "1">>,
           <<"MONTH:", "2", "0", "2", "4", "-", "1", "2">> }
    ELSE { <<"ALL">>,
           <<"WEEK:", "2", "0", "2", "5", "-W", "0", "1">>,
           <<"MONTH:", "2", "0", "2", "5", "-", "0", "1">> }

\* the recorded calls that wrote row key
CallsFor(key) ==
    {i \in 1..Len(calls) :
        /\ key[1] \in CalendarBuckets(calls[i].day)
        /\ EntriesNaming(calls[i].question_set_id, calls[i].question_ids,
                         calls[i].ver, key[2]) # {}}

AllSuccessful == \A i \in 1..Len(calls) : calls[i].status = 200

First(S) == CHOOSE i \in S : \A j \in S : i <= j

SnapshotOf(row) ==
    [title |-> row.title, collectionId |-> row.collectionId,
     collectionName |-> row.collectionName, html |-> row.html,
     correctAnswer |-> row.correctAnswer, explanation |-> row.explanation,
     selector |-> row.selector]

\* what call i offered for the snapshot fields of the question of row key
OfferedBy(i, key) ==
    LET c == calls[i]
        e == First(EntriesNaming(c.question_set_id, c.question_ids, c.ver, key[2]))
    IN  SnapshotValues(Questions(c.ver), Title(c.ver), c.collection_id,
                       CollectionName(c.collection_id, c.question_set_id),
                       ParseIndex(c.question_ids[e]).qidx)

SnapshotIsFirstWritten(key) ==
    CallsFor(key) # {} /\ SnapshotOf(stats[key]) = OfferedBy(First(CallsFor(key)), key)

\* C6 as stated: across successful calls every bucket row keeps the snapshot
\* fields of the first call that wrote it, and its wrongCountNum is the number
\* of calls that wrote it (exactly 1 per call).
C6_CounterPlusOnePerCall ==
    AllSuccessful =>
        \A key \in DOMAIN stats :
            /\ SnapshotIsFirstWritten(key)
            /\ stats[key].wrongCountNum = Cardinality(CallsFor(key))

\* C6 amended: across successful calls every bucket row keeps the snapshot
\* fields of the first call that wrote it, and its wrongCountNum is the number
\* of entries of question_ids that named its question in the calls that wrote
\* it: exactly 1 per entry, so 1 per call that lists the question once.
C6_SnapshotFirstWriterWins ==
    AllSuccessful =>
        \A key \in DOMAIN stats :
            /\ SnapshotIsFirstWritten(key)
            /\ stats[key].wrongCountNum =
                   SumOver([i \in CallsFor(key) |->
                               Cardinality(EntriesNaming(calls[i].question_set_id,
                                                         calls[i].question_ids,
                                                         calls[i].ver, key[2]))],
                           CallsFor(key))

\* a row was written by two successful calls, the second one after the set
\* was edited and for another collection
C6_Witness ==
    /\ AllSuccessful
    /\ \E key \in DOMAIN stats :
          /\ CallsFor(key) = {1, 2}
          /\ calls[1].ver # calls[2].ver
          /\ calls[1].collection_id # calls[2].collection_id
          /\ OfferedBy(1, key) # OfferedBy(2, key)
          /\ stats[key].wrongCountNum = 2

\* the counter of a row, 0 when the row is absent
CounterOf(tbl, key) == IF key \in DOMAIN tbl THEN tbl[key].wrongCountNum ELSE 0

\* the rows the questions of the stored set can have on a day
RowsOfSet(day) ==
    {<<b, Qs1 \o <<"#">> \o Str(idx)>> :
        b \in CalendarBuckets(day), idx \in 0..(NQuestions - 1)}

\* C7: in a record_wrong_answers call in which no counter update fails, every
\* entry that names an eligible question adds 1 to the counter of that
\* question in exactly three rows, the ALL bucket, the bucket of the ISO week
\* and the bucket of the month of the call instant, and the call changes the
\* counter of no other row.
C7_ThreeBucketsPerEntry ==
    [][ \A r \in RecordRequests :
          ( /\ r.question_set_id = Qs1
            /\ r.fault \in {"none", "mirror"}
            /\ RecordWrongAnswers(r.question_set_id, r.question_ids, r.collection_id,
                                  r.fault) )
          => \A key \in DOMAIN stats \cup DOMAIN stats' \cup RowsOfSet(now) :
                CounterOf(stats', key) - CounterOf(stats, key) =
                    IF key[1] \in CalendarBuckets(now)
                    THEN Cardinality(EntriesNaming(r.question_set_id, r.question_ids,
                                                   qver, key[2]))
                    ELSE 0
      ]_vars

\* question 0 was recorded once on 2024-12-30 and nothing else: its counter is
\* 1 in the buckets ALL, WEEK:2025-W01 and MONTH:2024-12, which are all the rows
C7_Witness ==
    /\ Len(calls) = 1
    /\ calls[1].day = DaysFromCivil(<<2024, 12, 30>>)
    /\ calls[1].question_ids = Once
    /\ calls[1].status = 200
    /\ DOMAIN stats = {<<b, <<"qs1", "#", "0">>>> :
                          b \in CalendarBuckets(DaysFromCivil(<<2024, 12, 30>>))}
    /\ \A key \in DOMAIN stats : stats[key].wrongCountNum = 1

\* C8: no call of record_wrong_answers creates or changes a row of a question
\* that has no or several answer-mapping entries when the call is made, nor a
\* row for an index outside the question list or for an entry that is not an
\* integer: every row a call touches is the row of a single-mapping question.
C8_OnlySingleMappingRecorded ==
    [][ \A key \in DOMAIN stats' :
          (key \notin DOMAIN stats \/ stats'[key] # stats[key])
          => \E idx \in 0..(NQuestions - 1) :
                /\ Len(Questions(qver)[idx + 1].answerMapping) = 1
                /\ key[2] = Qs1 \o <<"#">> \o Str(idx)
      ]_vars

\* after the edit that gave question 1 a second answer-mapping entry, a call
\* submitted question 1, the questions without and with two entries, an index
\* out of range, a negative one and entries that are no integers; the row of
\* question 1 still holds the count of the call made before the edit
C8_Witness ==
    /\ Len(calls) = 2
    /\ calls[1].ver = 1 /\ calls[1].question_ids = Mixed /\ calls[1].status = 200
    /\ calls[2].ver = 2 /\ calls[2].question_ids = Mixed
    /\ resp.op = "record" /\ resp.status = 500
    /\ stats[<<AllBucket, <<"qs1", "#", "1">>>>].wrongCountNum = 1
    /\ \A key \in DOMAIN stats : key[2] = <<"qs1", "#", "1">>

\* C9: whatever the period, the requested limit and the rows stored, and
\* whether the rows come from the index, from the scan made when the index
\* gave nothing or from the scan made when the index failed,
\* get_top_wrong_questions returns at most 10 rows.
C9_AtMostTenRows ==
    resp.op = "top" => Len(resp.result.questions) <= 10

RowsInBucket(bucket) == {key \in DOMAIN stats : key[1] = bucket}

\* a query with limit 20 on a bucket of more than 10 rows, answered by the
\* scan made after the index gave nothing, returned 10 rows
C9_Witness ==
    /\ resp.op = "top"
    /\ resp.limit = 20
    /\ resp.result.path = "scan after empty index"
    /\ Cardinality(RowsInBucket(resp.result.bucket)) > 10
    /\ Len(resp.result.questions) = 10

\* every recorded call was successful, was made in the ISO week of the clock
\* and named the question of row id qid and no other question
OnlyThisWeek(qid) ==
    /\ calls # <<>>
    /\ \A i \in 1..Len(calls) :
          /\ calls[i].status = 200
          /\ CalendarBuckets(calls[i].day) \ CalendarBuckets(now) \subseteq
                 {b \in CalendarBuckets(calls[i].day) : b[1] = "MONTH:"}
          /\ EntriesNaming(calls[i].question_set_id, calls[i].question_ids,
                           calls[i].ver, qid) # {}
          /\ \A idx \in SingleMapped(calls[i].ver) :
                EntriesNaming(calls[i].question_set_id, calls[i].question_ids,
                              calls[i].ver, QuestionId(Qs1, idx)) # {}
                => QuestionId(Qs1, idx) = qid

\* the entries of the recorded calls that name the question of row id qid
TotalEntries(qid) ==
    SumOver([i \in 1..Len(calls) |->
                Cardinality(EntriesNaming(calls[i].question_set_id,
                                          calls[i].question_ids, calls[i].ver, qid))],
            1..Len(calls))

Returned(r) == {r.result.questions[i].questionId : i \in 1..Len(r.result.questions)}

\* C11: get_top_wrong_questions returns the rows of the current bucket ranked
\* by the counter, largest first: the returned wrongCount values are
\* non-increasing, and no row of the bucket that was left out has a larger
\* wrongCountNum than a returned row, on the index path and on the scan paths.
C11_RankedByCounter ==
    [][ \A period \in Periods, limit \in Limits, index \in {"ok", "error"},
           scan \in {"ok", "error"}, tie \in TieOrders :
          GetTopWrongQuestions(period, limit, index, scan, tie)
          /\ resp'.result.status = 200
          => /\ \A i \in 1..Len(resp'.result.questions) :
                   \A j \in i..Len(resp'.result.questions) :
                      resp'.result.questions[i].wrongCount
                         >= resp'.result.questions[j].wrongCount
             /\ \A key \in RowsInBucket(resp'.result.bucket) :
                   key[2] \notin Returned(resp')
                   => \A i \in 1..Len(resp'.result.questions) :
                         stats[key].wrongCountNum
                            <= resp'.result.questions[i].wrongCount
      ]_vars

\* C12: in a behaviour made only of invocations of
\* increment_daily_metrics_for_order, sequential or concurrent, the revenue and
\* the orderCount of every day row never decrease from one state to the next
\* and a day row that exists never becomes absent.
C12_CountersNeverDecrease ==
    [][ \A k \in DOMAIN metrics :
          /\ k \in DOMAIN metrics'
          /\ metrics'[k].revenue >= metrics[k].revenue
          /\ metrics'[k].orderCount >= metrics[k].orderCount
      ]_vars

----------------------------------------------------------------------------
(* Failures of the metrics store during an increment *)

\* the store call of increment_daily_metrics_for_order that raises, if any
StoreFaults == {"none", "get_item", "put_item", "update_item"}

\* put_item or update_item inside the try block, given what get_item returned:
\* whether an exception left the block, and the table. The expression built
\* for a new payer on an existing row is rejected with a ClientError.
TryWrite(tbl, order, existing, fault) ==
    IF ~existing.found
    THEN IF fault = "put_item" THEN [raised |-> TRUE, tbl |-> tbl]
         ELSE [raised |-> FALSE, tbl |-> IncrementWrite(tbl, order, existing)]
    ELSE IF fault = "update_item" THEN [raised |-> TRUE, tbl |-> tbl]
         ELSE [raised |-> is_new_user_today(existing, order.userId),
               tbl |-> IncrementWrite(tbl, order, existing)]

\* the try block of increment_daily_metrics_for_order
IncrementTry(tbl, order, fault) ==
    IF order.userId = NoUser THEN [raised |-> FALSE, tbl |-> tbl]
    ELSE IF fault = "get_item" THEN [raised |-> TRUE, tbl |-> tbl]
    ELSE TryWrite(tbl, order, GetItem(tbl, MetricsKey(order)), fault)

Reraise(outcome) == outcome

\* except Exception as _: pass
SwallowException(outcome) == [outcome EXCEPT !.raised = FALSE]

\* the call as its caller sees it: whether it raised, and the table it leaves
IncrementCall(tbl, order, fault) == SwallowException(IncrementTry(tbl, order, fault))

\* cart.update_order_status with a store that may fail. fault "order_update"
\* is a failure of the update of the order itself, which the outer except
\* turns into status 500; whatever the increment raises is caught by the
\* inner try. resp keeps whether the increment raised to update_order_status.
UpdateOrderStatusWithFault(o, status, payment_status, fault) ==
    /\ o \in 1..Len(orders)
    /\ TotalIncCalls + UpdateOrderStatusCalls(status, payment_status) <= MaxIncrements
    /\ \/ /\ fault = "order_update"
          /\ resp' = [op |-> "update_order_status", status |-> 500,
                      fault |-> fault, raised |-> FALSE]
          /\ UNCHANGED <<orders, metrics, incCalls>>
       \/ /\ fault \in StoreFaults
          /\ orders' = [orders EXCEPT ![o] = OrderWithStatus(@, status, payment_status)]
          /\ metrics' = IF CountsForMetrics(status, payment_status)
                        THEN IncrementCall(metrics, orders'[o], fault).tbl
                        ELSE metrics
          /\ incCalls' = [incCalls EXCEPT ![o] = @ + UpdateOrderStatusCalls(status, payment_status)]
          /\ resp' = [op |-> "update_order_status", status |-> 200, fault |-> fault,
                      raised |-> /\ CountsForMetrics(status, payment_status)
                                 /\ IncrementCall(metrics, orders'[o], fault).raised]
    /\ UNCHANGED <<nRebuilds, pc, loc, rb, statsVars>>

\* Orders are created and completed while store calls may fail.
NextFaults ==
    \/ \E u \in UserIds, t \in Prices, at \in Instants : CreateOrder(u, t, at)
    \/ \E o \in 1..MaxOrders, ps \in {"paid", "none"},
          fault \in StoreFaults \cup {"order_update"} :
          UpdateOrderStatusWithFault(o, "completed", ps, fault)

SpecFaults == Init /\ [][NextFaults]_vars

\* C13: increment_daily_metrics_for_order never raises to its caller:
\* whichever of get_item, put_item and update_item fails, the call returns
\* normally and update_order_status returns status 200 with the order updated.
C13_IncrementNeverRaises ==
    [][ \A o \in 1..MaxOrders, ps \in {"paid", "none"}, fault \in StoreFaults :
          UpdateOrderStatusWithFault(o, "completed", ps, fault)
          => /\ ~resp'.raised
             /\ resp'.status = 200
             /\ orders'[o].status = "completed"
             /\ ps = "paid" => orders'[o].paymentStatus = "paid"
      ]_vars

\* two orders of two users on one day were completed three times in all, the
\* last time with update_item failing on the existing day row: status 200, and
\* the row counts one order
C13_Witness ==
    /\ resp.op = "update_order_status"
    /\ resp.status = 200
    /\ resp.fault = "update_item"
    /\ Len(orders) = 2
    /\ orders[1].userId \in Users /\ orders[2].userId \in Users
    /\ orders[1].status = "completed" /\ orders[2].status = "completed"
    /\ incCalls = <<2, 1>>
    /\ DOMAIN metrics = {MetricsKey(orders[1])}
    /\ MetricsKey(orders[2]) = MetricsKey(orders[1])
    /\ metrics[MetricsKey(orders[1])].orderCount = 1

\* C14: when question_set_id names no stored question set, because there is no
\* metadata item or because the item has no s3Key, record_wrong_answers
\* answers 404 for the whole batch and writes or changes no bucket row.
C14_UnknownSetWritesNothing ==
    [][ \A r \in RecordRequests :
          ( /\ r.question_set_id \in {QsUnknown, QsNoData}
            /\ r.question_ids # <<>>
            /\ RecordWrongAnswers(r.question_set_id, r.question_ids,
                                  r.collection_id, r.fault) )
          => /\ resp'.status = 404
             /\ stats' = stats
      ]_vars

\* a batch of eleven indices for the set stored without s3Key was answered
\* 404 while the table held the rows of an earlier successful call
C14_Witness ==
    /\ resp.op = "record"
    /\ resp.status = 404
    /\ resp.body.error = "Question set data missing"
    /\ Len(calls) = 1
    /\ calls[1].status = 200
    /\ Cardinality(DOMAIN stats) = 3

\* the entries of question_ids that name a single-mapping question
TrackedEntries(question_set_id, question_ids, ver) ==
    {i \in 1..Len(question_ids) :
        \E idx \in SingleMapped(ver) :
           Names(question_set_id, question_ids[i], ver, QuestionId(question_set_id, idx))}

\* the buckets of a day whose counter update fails under the fault
FailingBuckets(fault, day) == {b \in CalendarBuckets(day) : UpdateFails(fault, b)}

\* C15: a failed bucket write does not stop the batch. The buckets of the
\* same question and the entries that follow are still written: every row
\* whose write does not fail gains 1 per entry naming its question, each
\* failed write is one entry of errors, and the status is 207 when at least
\* one write of the call succeeded and at least one failed.
C15_FailedWriteDoesNotStopBatch ==
    [][ \A r \in RecordRequests :
          ( /\ r.question_set_id = Qs1
            /\ r.question_ids # <<>>
            /\ RecordWrongAnswers(r.question_set_id, r.question_ids, r.collection_id,
                                  r.fault) )
          => /\ \A key \in DOMAIN stats \cup DOMAIN stats' \cup RowsOfSet(now) :
                   CounterOf(stats', key) - CounterOf(stats, key) =
                       IF key[1] \in CalendarBuckets(now) \ FailingBuckets(r.fault, now)
                       THEN Cardinality(EntriesNaming(r.question_set_id, r.question_ids,
                                                      qver, key[2]))
                       ELSE 0
             /\ Len(resp'.body.errors) =
                   Cardinality(TrackedEntries(r.question_set_id, r.question_ids, qver))
                      * Cardinality(FailingBuckets(r.fault, now))
             /\ \A i \in 1..Len(resp'.body.errors) :
                   resp'.body.errors[i][1] \in FailingBuckets(r.fault, now)
             /\ ( /\ TrackedEntries(r.question_set_id, r.question_ids, qver) # {}
                  /\ FailingBuckets(r.fault, now) # {}
                  /\ FailingBuckets(r.fault, now) # CalendarBuckets(now) )
                => resp'.status = 207
      ]_vars

\* a batch of eleven questions was recorded while every write to the WEEK
\* bucket failed: eleven errors, eleven questions updated in the ALL and MONTH
\* buckets, status 207
C15_Witness ==
    /\ resp.op = "record"
    /\ resp.status = 207
    /\ Len(resp.body.errors) = 11
    /\ resp.body.updated = 11
    /\ Len(calls) = 1
    /\ Cardinality(DOMAIN stats) = 22
    /\ \A key \in DOMAIN stats : key[1][1] # "WEEK:" /\ stats[key].wrongCountNum = 1

\* the bucket of the period on a day, from the calendar
BucketOfPeriod(day, period) ==
    CHOOSE b \in CalendarBuckets(day) :
        b[1] = (IF period = "ALL" THEN "ALL"
                ELSE IF period = "MONTH" THEN "MONTH:" ELSE "WEEK:")

\* C16: for a bucket that has no rows get_top_wrong_questions returns status
\* 200 with an empty question list, when the index answers with no rows
\* (whatever the scan then does) and when the index raises and the scan made
\* in its place answers.
C16_EmptyBucketGivesEmptyList ==
    [][ \A period \in Periods, limit \in Limits, index \in {"ok", "error"},
           scan \in {"ok", "error"}, tie \in TieOrders :
          ( /\ RowsInBucket(BucketOfPeriod(now, period)) = {}
            /\ index = "ok" \/ scan = "ok"
            /\ GetTopWrongQuestions(period, limit, index, scan, tie) )
          => /\ resp'.result.status = 200
             /\ resp'.result.questions = <<>>
      ]_vars

\* after the clock moved to a week that has no rows yet, while the ALL bucket
\* has rows, a WEEK query whose index raised was answered 200 with no question
\* by the scan
C16_Witness ==
    /\ resp.op = "top"
    /\ resp.result.status = 200
    /\ resp.result.questions = <<>>
    /\ resp.result.path = "scan after index error"
    /\ resp.result.bucket = BucketOfPeriod(now, "WEEK")
    /\ RowsInBucket(resp.result.bucket) = {}
    /\ RowsInBucket(AllBucket) # {}

\* the entries of the recorded calls made on a day of the bucket that name
\* the question of row id qid
EntriesIn(bucket, qid) ==
    SumOver([i \in 1..Len(calls) |->
                IF bucket \in CalendarBuckets(calls[i].day)
                THEN Cardinality(EntriesNaming(calls[i].question_set_id,
                                               calls[i].question_ids, calls[i].ver, qid))
                ELSE 0],
            1..Len(calls))

\* the questions recorded on a day of the bucket
RecordedIn(bucket) ==
    {qid \in {QuestionId(Qs1, idx) : idx \in 0..(NQuestions - 1)} :
        EntriesIn(bucket, qid) > 0}

\* C17: get_top_wrong_questions reads only the bucket that is current when it
\* is called. Every row a WEEK or MONTH query returns carries the count of the
\* entries recorded in the ISO week or month of the clock, so that nothing
\* recorded in an earlier week or month is returned, and every row an ALL
\* query returns carries the count of all entries ever recorded; when the
\* bucket has at most 10 rows and each has its index attribute, the rows
\* returned are those of all the questions recorded in the bucket.
C17_ReadsOnlyCurrentBucket ==
    [][ \A period \in Periods, limit \in Limits, index \in {"ok", "error"},
           scan \in {"ok", "error"}, tie \in TieOrders :
          ( /\ GetTopWrongQuestions(period, limit, index, scan, tie)
            /\ resp'.result.status = 200 )
          => /\ \A i \in 1..Len(resp'.result.questions) :
                   resp'.result.questions[i].wrongCount =
                       EntriesIn(BucketOfPeriod(now, period),
                                 resp'.result.questions[i].questionId)
             /\ ( /\ Cardinality(RecordedIn(BucketOfPeriod(now, period))) <= 10
                  /\ \A key \in RowsInBucket(BucketOfPeriod(now, period)) :
                        stats[key].wrongCount # NoMirror )
                => Returned(resp') = RecordedIn(BucketOfPeriod(now, period))
      ]_vars

\* question 0 was recorded on 2024-12-29, in ISO week 2024-W52, the clock moved
\* to 2025-01-01, in week 2025-W01 and month 2025-01, and the WEEK query
\* returned no row while the ALL bucket still holds the count
C17_Witness ==
    /\ Len(calls) = 1
    /\ calls[1].day = DaysFromCivil(<<2024, 12, 29>>)
    /\ calls[1].question_ids = Once
    /\ now = DaysFromCivil(<<2025, 1, 1>>)
    /\ resp.op = "top"
    /\ resp.result.status = 200
    /\ resp.result.bucket = <<"WEEK:", "2", "0", "2", "5", "-W", "0", "1">>
    /\ resp.result.questions = <<>>
    /\ stats[<<AllBucket, <<"qs1", "#", "0">>>>].wrongCountNum = 1

----------------------------------------------------------------------------
(* metrics.get_revenue_month_compare and the reports on a stored table *)

\* _to_first_day_of_month
_to_first_day_of_month(date) == <<date[1], date[2], 1>>

\* first day of the next month
NextMonthStart(start) ==
    IF start[2] = 12 THEN <<start[1] + 1, 1, 1>> ELSE <<start[1], start[2] + 1, 1>>

\* _month_bounds_utc: the first and the last day of the month of date
_month_bounds_utc(date) ==
    << _to_first_day_of_month(date),
       CivilFromDays(DaysFromCivil(NextMonthStart(_to_first_day_of_month(date))) - 1) >>

\* prev_month_last_day = first_of_cur - timedelta(days=1)
PrevMonthLastDay(date) == CivilFromDays(DaysFromCivil(_to_first_day_of_month(date)) - 1)

\* sum_range: the revenue of the rows the range query returns
sum_range(tbl, bounds, organization_id) ==
    SumOver([k \in RowsInRange(tbl, bounds[1], bounds[2], organization_id) |->
                tbl[k].revenue],
            RowsInRange(tbl, bounds[1], bounds[2], organization_id))

DeltaPctZeroWithoutBase(cur_total, prev_total) ==
    IF prev_total > 0
    THEN [num |-> (cur_total - prev_total) * 100, den |-> prev_total]
    ELSE [num |-> 0, den |-> 1]

\* delta_pct, a float in the code, as the fraction num / den:
\* (delta / prev_total * 100.0) if prev_total > 0 else (100.0 if cur_total > 0 else 0.0)
DeltaPct(cur_total, prev_total) ==
    IF prev_total > 0
    THEN [num |-> (cur_total - prev_total) * 100, den |-> prev_total]
    ELSE IF cur_total > 0 THEN [num |-> 100, den |-> 1] ELSE [num |-> 0, den |-> 1]

\* the body put together from the two totals
CompareBody(cur_total, prev_total, cur_start, prev_start) ==
    [currentMonthRevenue |-> cur_total,
     previousMonthRevenue |-> prev_total,
     delta |-> cur_total - prev_total,
     deltaPct |-> DeltaPct(cur_total, prev_total),
     currentMonth |-> <<cur_start[1], cur_start[2]>>,
     previousMonth |-> <<prev_start[1], prev_start[2]>>]

\* get_revenue_month_compare on the day of the clock
get_revenue_month_compare(tbl, day, organization_id) ==
    CompareBody(sum_range(tbl, _month_bounds_utc(CivilFromDays(day)), organization_id),
                sum_range(tbl, _month_bounds_utc(PrevMonthLastDay(CivilFromDays(day))),
                          organization_id),
                _month_bounds_utc(CivilFromDays(day))[1],
                _month_bounds_utc(PrevMonthLastDay(CivilFromDays(day)))[1])

\* The days that have a row when the reports are read, around the turn of two
\* months and of the year, and the days on which they are read.
ReportDates == {<<2024, 12, 31>>, <<2025, 1, 1>>, <<2025, 1, 31>>, <<2025, 2, 1>>}
ReportDays == {DaysFromCivil(<<2025, 1, 15>>), DaysFromCivil(<<2025, 2, 10>>)}
ReportKeys ==
    {<<DefaultOrg, d>> : d \in ReportDates} \cup {<<"other", <<2025, 1, 31>>>>}

\* The rows a day can have: the row put for the first order of the day, paid
\* or free, and a row written before payingUsers was stored, which has the set
\* of payers only.
StoredItems ==
    { NewDayItem(NewOrder("u1", 50000, 0), TRUE),
      NewDayItem(NewOrder("u2", 0, 0), TRUE),
      [attrs |-> {"currency", "revenue", "orderCount", "payingUserIds"},
       revenue |-> 150000, orderCount |-> 2, payingUsers |-> 0,
       payingUserIds |-> {"u1", "u2"}] }

StoredTables == UNION {[K -> StoredItems] : K \in SUBSET ReportKeys}

\* a metrics table filled earlier, read on one of the days
InitReports ==
    /\ orders = <<>>
    /\ metrics \in StoredTables
    /\ incCalls = <<>>
    /\ nRebuilds = 0
    /\ resp = NoResp
    /\ pc = [p \in Procs |-> "idle"]
    /\ loc = [p \in Procs |-> IdleLoc]
    /\ rb = IdleRb
    /\ stats = <<>>
    /\ now \in ReportDays
    /\ qver = 1
    /\ calls = <<>>
    /\ nTops = 0
    /\ wr = [p \in Procs |-> IdleWr]

\* lambda_function 'getRevenueMonthCompare' -> get_revenue_month_compare
GetRevenueMonthCompare(organization_id) ==
    /\ resp' = [op |-> "month_compare", status |-> 200, org |-> organization_id,
                body |-> get_revenue_month_compare(metrics, now, organization_id)]
    /\ UNCHANGED <<metricsVars, statsVars>>

\* Key("date").between(start_date, end_date): the store rejects a key
\* condition whose lower bound is above its upper bound
BetweenAccepted(start_date, end_date) == DateLeq(start_date, end_date)

\* lambda_function 'getMetricsSeries' -> get_metrics_series; a rejected query
\* is answered 500, without series
GetMetricsSeries(start_date, end_date, organization_id) ==
    /\ resp' = [op |-> "series", org |-> organization_id,
                start |-> start_date, end |-> end_date,
                status |-> IF BetweenAccepted(start_date, end_date) THEN 200 ELSE 500,
                series |-> IF BetweenAccepted(start_date, end_date)
                           THEN get_metrics_series(metrics, start_date, end_date,
                                                   organization_id)
                           ELSE <<>>]
    /\ UNCHANGED <<metricsVars, statsVars>>

\* A report is read from a table that no longer changes. A report leaves
\* everything but the response as it was, so one report in a behaviour shows
\* what any later one would return.
NextReports ==
    \/ \E org \in Orgs : resp = NoResp /\ GetRevenueMonthCompare(org)
    \/ \E s \in ReportDates, e \in ReportDates, org \in Orgs :
          resp = NoResp /\ GetMetricsSeries(s, e, org)

SpecReports == InitReports /\ [][NextReports]_vars

\* the revenue of the rows of an organization in a calendar month
MonthRevenue(org, ym) ==
    SumOver([k \in DOMAIN metrics |-> metrics[k].revenue],
            {k \in DOMAIN metrics : k[1] = org /\ k[2][1] = ym[1] /\ k[2][2] = ym[2]})

\* the month of the clock and the month before it
ThisMonth == <<CivilFromDays(now)[1], CivilFromDays(now)[2]>>
LastMonth ==
    IF ThisMonth[2] = 1 THEN <<ThisMonth[1] - 1, 12>> ELSE <<ThisMonth[1], ThisMonth[2] - 1>>

\* C18: in get_revenue_month_compare, when the revenue total of the previous
\* month is 0, deltaPct is 0 if the total of the current month is 0 and 100 if
\* it is greater than 0; when the previous total is greater than 0, deltaPct is
\* (current - previous) / previous * 100.
C18_DeltaPctConvention ==
    [][ \A org \in Orgs :
          GetRevenueMonthCompare(org)
          => LET cur  == MonthRevenue(org, ThisMonth)
                 prev == MonthRevenue(org, LastMonth)
                 pct  == resp'.body.deltaPct
             IN  /\ (prev = 0 /\ cur = 0) => pct = [num |-> 0, den |-> 1]
                 /\ (prev = 0 /\ cur > 0) => pct = [num |-> 100, den |-> 1]
                 /\ prev > 0 => pct = [num |-> (cur - prev) * 100, den |-> prev]
      ]_vars

\* read on 2025-01-15: December 2024 has a row of revenue 0 and January has
\* revenue 200000 in two rows, and deltaPct is 100
C18_Witness ==
    /\ resp.op = "month_compare"
    /\ resp.org = DefaultOrg
    /\ now = DaysFromCivil(<<2025, 1, 15>>)
    /\ <<DefaultOrg, <<2024, 12, 31>>>> \in DOMAIN metrics
    /\ resp.body.previousMonth = <<2024, 12>>
    /\ resp.body.previousMonthRevenue = 0
    /\ resp.body.currentMonthRevenue = 200000
    /\ resp.body.deltaPct = [num |-> 100, den |-> 1]

\* the dates of the rows of an organization between two dates, bounds included
DatesStored(org, start_date, end_date) ==
    {k[2] : k \in {x \in DOMAIN metrics :
                      /\ x[1] = org
                      /\ DateLeq(start_date, x[2])
                      /\ DateLeq(x[2], end_date)}}

\* C19: get_metrics_series(start, end, org), for start <= end, returns exactly
\* one point per stored day row of the organization with start <= date <= end
\* and none outside, in ascending order of date; the payingUsers of a point is
\* the stored payingUsers when the row has it and the cardinality of
\* payingUserIds otherwise.
C19_SeriesIsRowsInRange ==
    [][ \A s \in ReportDates, e \in ReportDates, org \in Orgs :
          ( DateLeq(s, e) /\ GetMetricsSeries(s, e, org) )
          => /\ resp'.status = 200
             /\ {resp'.series[i].date : i \in 1..Len(resp'.series)}
                    = DatesStored(org, s, e)
             /\ Len(resp'.series) = Cardinality(DatesStored(org, s, e))
             /\ \A i \in 1..Len(resp'.series) : \A j \in (i + 1)..Len(resp'.series) :
                   /\ DateLeq(resp'.series[i].date, resp'.series[j].date)
                   /\ resp'.series[i].date # resp'.series[j].date
             /\ \A i \in 1..Len(resp'.series) :
                   resp'.series[i].payingUsers =
                      IF "payingUsers" \in metrics[<<org, resp'.series[i].date>>].attrs
                      THEN metrics[<<org, resp'.series[i].date>>].payingUsers
                      ELSE Cardinality(metrics[<<org, resp'.series[i].date>>].payingUserIds)
      ]_vars

\* the table has a row on each of the four days and a row of the other
\* organization; the series from 2025-01-01 to 2025-01-31 has the two rows of
\* January, of which the first stores payingUsers 1 and the second has no
\* payingUsers and two payingUserIds
C19_Witness ==
    /\ resp.op = "series"
    /\ resp.org = DefaultOrg
    /\ resp.start = <<2025, 1, 1>> /\ resp.end = <<2025, 1, 31>>
    /\ DOMAIN metrics = ReportKeys
    /\ "payingUsers" \in metrics[<<DefaultOrg, <<2025, 1, 1>>>>].attrs
    /\ "payingUsers" \notin metrics[<<DefaultOrg, <<2025, 1, 31>>>>].attrs
    /\ Len(resp.series) = 2
    /\ resp.series[1].date = <<2025, 1, 1>> /\ resp.series[1].payingUsers = 1
    /\ resp.series[2].date = <<2025, 1, 31>> /\ resp.series[2].payingUsers = 2

\* C20: increment_daily_metrics_for_order called twice in sequence with the
\* same order, as the payment webhook does for an order that has a user, adds
\* the amount of the order to revenue twice and 2 to orderCount, adds at most
\* 1 to payingUsers and leaves the user in payingUserIds.
C20_TwiceAddsTwice ==
    [][ \A code \in 1..MaxOrders :
          ( /\ code \in 1..Len(orders)
            /\ orders[code].userId # NoUser
            /\ HandlePaymentWebhook(code, orders[code].finalPrice, TRUE)
            /\ resp'.status = 200 )
          => LET k == MetricsKey(orders[code])
             IN  /\ DayRow(metrics', k).revenue =
                        DayRow(metrics, k).revenue + 2 * orders[code].finalPrice
                 /\ DayRow(metrics', k).orderCount = DayRow(metrics, k).orderCount + 2
                 /\ DayRow(metrics', k).payingUsers - DayRow(metrics, k).payingUsers
                        \in {0, 1}
                 /\ orders[code].userId \in DayRow(metrics', k).payingUserIds
      ]_vars

----------------------------------------------------------------------------
(* Concurrent record_wrong_answers invocations, one store call per step.
   Each invocation records question 0 of the stored set: for each of its
   three buckets it increments the counter, reads the row back and writes
   the padded mirror. *)

WritersInFlight == Cardinality({p \in Procs : wr[p].pc # "idle"})

\* the row of question 0 in the bucket the invocation is working on
WrKey(p) == <<wr[p].buckets[wr[p].i], QuestionId(Qs1, 0)>>

\* validation, the load of the question set and _now_periods()
RwaStart(p) ==
    /\ wr[p].pc = "idle"
    /\ Len(calls) + WritersInFlight < MaxRecords
    /\ wr' = [wr EXCEPT ![p] = [pc |-> "upsert", i |-> 1, wc_num |-> 0, day |-> now,
                                buckets |-> Buckets(now)]]
    /\ UNCHANGED <<metricsVars, resp, stats, now, qver, calls, nTops>>

\* update_item with wrongCountNum = if_not_exists(wrongCountNum, :zero) + :one
RwaUpsert(p) ==
    /\ wr[p].pc = "upsert"
    /\ stats' = Upsert(stats, WrKey(p), Qs1, 0,
                       SnapshotValues(Questions(qver), Title(qver), NoCollection,
                                      CollectionName(NoCollection, Qs1), 0))
    /\ wr' = [wr EXCEPT ![p].pc = "read"]
    /\ UNCHANGED <<metricsVars, resp, now, qver, calls, nTops>>

\* cur = get_item(Key=key_args); wc_num = int(cur.get('wrongCountNum', 0))
RwaRead(p) ==
    /\ wr[p].pc = "read"
    /\ wr' = [wr EXCEPT ![p].pc = "mirror",
                        ![p].wc_num = stats[WrKey(p)].wrongCountNum]
    /\ UNCHANGED <<metricsVars, resp, stats, now, qver, calls, nTops>>

\* update_item SET wrongCount = :wc; after the last bucket the call returns
RwaMirror(p) ==
    /\ wr[p].pc = "mirror"
    /\ stats' = WriteMirror(stats, WrKey(p), wr[p].wc_num)
    /\ IF wr[p].i < Len(wr[p].buckets)
       THEN /\ wr' = [wr EXCEPT ![p].pc = "upsert", ![p].i = @ + 1]
            /\ UNCHANGED <<resp, calls>>
       ELSE /\ wr' = [wr EXCEPT ![p] = IdleWr]
            /\ resp' = [op |-> "record", status |-> 200,
                        body |-> [updated |-> 1,
                                  updated_ids |-> <<QuestionId(Qs1, 0)>>,
                                  errors |-> <<>>]]
            /\ calls' = Append(calls, [day |-> wr[p].day, ver |-> qver,
                                       question_set_id |-> Qs1,
                                       question_ids |-> Once,
                                       collection_id |-> NoCollection,
                                       status |-> 200,
                                       errors |-> 0])
    /\ UNCHANGED <<metricsVars, now, qver, nTops>>

\* Concurrent recordings of one question while the clock moves.
NextMirror ==
    \/ \E day \in ClockDays : Tick(day)
    \/ \E p \in Procs : RwaStart(p)
    \/ \E p \in Procs : RwaUpsert(p)
    \/ \E p \in Procs : RwaRead(p)
    \/ \E p \in Procs : RwaMirror(p)

SpecMirror == Init /\ [][NextMirror]_vars

\* C21: whenever no record_wrong_answers call is in progress, every bucket row
\* has its string mirror wrongCount equal to its counter wrongCountNum padded
\* with zeros to 12 digits, after any interleaving of concurrent calls that
\* increment the same row.
C21_MirrorEqualsCounter ==
    (\A p \in Procs : wr[p].pc = "idle")
    => \A key \in DOMAIN stats :
          stats[key].wrongCount = ZFill(Str(stats[key].wrongCountNum), 12)

\* C22: when a rebuild_metrics_range and the increment_daily_metrics_for_order
\* of an order that becomes completed have both finished, whatever their
\* interleaving, the order is counted exactly once in its day row. Stated for
\* a log of one order, of a user and with a price, which is created pending,
\* after a rebuild and one completion of the order.
C22_RebuildAndIncrementCountOnce ==
    ( /\ Quiescent
      /\ nRebuilds >= 1
      /\ Len(orders) = 1
      /\ orders[1].userId \in Users
      /\ orders[1].finalPrice > 0
      /\ orders[1].status = "completed"
      /\ incCalls[1] = 1 )
    => /\ MetricsKey(orders[1]) \in DOMAIN metrics
       /\ metrics[MetricsKey(orders[1])].orderCount = 1
       /\ metrics[MetricsKey(orders[1])].revenue = orders[1].finalPrice

\* C23: rebuild_metrics_range reads the order log before it deletes anything:
\* when the index is missing (status 400) or the query of the order log fails
\* (status 500), no day row has been deleted or modified when the call returns.
C23_FailedReadDeletesNothing ==
    [][ \A s \in ModelDates, e \in ModelDates, org \in Orgs :
          /\ RebuildMetricsRange(s, e, org, "missing")
                => resp'.status = 400 /\ metrics' = metrics
          /\ RebuildMetricsRange(s, e, org, "error")
                => /\ resp'.status = (IF DateLeq(s, e) THEN 500 ELSE 400)
                   /\ metrics' = metrics
      ]_vars

\* a rebuild was answered 400 for want of the index while the table holds the
\* row of a completed order, which is still there
C23_Witness ==
    /\ resp.op = "rebuild"
    /\ resp.status = 400
    /\ nRebuilds = 1
    /\ \E o \in 1..Len(orders) :
          /\ incCalls[o] = 1
          /\ MetricsKey(orders[o]) \in DOMAIN metrics
          /\ metrics[MetricsKey(orders[o])].orderCount = 1

\* the fields of a day row that the two ways of counting are compared on
Counted(item) ==
    [revenue |-> item.revenue, orderCount |-> item.orderCount,
     payingUsers |-> item.payingUsers, payingUserIds |-> item.payingUserIds]

\* the metrics table rebuild_metrics_range writes from the order log, on an
\* empty table, over the range of all the dates of the orders
RebuiltFromLog ==
    RebuildResult(orders, <<>>, <<2025, 3, 10>>, <<2025, 3, 11>>, DefaultOrg, "ok").metrics

\* C24: for an order log of completed orders that all have a userId, the day
\* rows obtained by one increment_daily_metrics_for_order call per order, one
\* after another from an empty metrics store, are equal in revenue,
\* orderCount, payingUsers and payingUserIds to the day rows that
\* rebuild_metrics_range writes over a range covering all the orders.
C24_IncrementsEqualRebuild ==
    ( /\ orders # <<>>
      /\ nRebuilds = 0
      /\ \A o \in 1..Len(orders) :
            /\ orders[o].userId \in Users
            /\ orders[o].status = "completed"
            /\ incCalls[o] = 1 )
    => /\ DOMAIN metrics = DOMAIN RebuiltFromLog
       /\ \A k \in DOMAIN metrics : Counted(metrics[k]) = Counted(RebuiltFromLog[k])

\* the sum of the counters of a question over the buckets of one kind
SumOfKind(kind, qid) ==
    SumOver([key \in DOMAIN stats |-> stats[key].wrongCountNum],
            {key \in DOMAIN stats : key[1][1] = kind /\ key[2] = qid})

\* C25: when no bucket write ever failed, in every state between calls and
\* for every question id, the counter of its ALL row equals the sum of its
\* counters over all WEEK buckets and the sum of its counters over all MONTH
\* buckets, as the clock advances across weeks and months between the calls.
C25_AllIsSumOfWeeksAndMonths ==
    (\A i \in 1..Len(calls) : calls[i].errors = 0)
    => \A qid \in {key[2] : key \in DOMAIN stats} :
          /\ SumOfKind("ALL", qid) = SumOfKind("WEEK:", qid)
          /\ SumOfKind("ALL", qid) = SumOfKind("MONTH:", qid)
          /\ <<AllBucket, qid>> \in DOMAIN stats

\* question 0 was recorded on 2024-12-29 and again on 2025-01-01, in another
\* ISO week and another month: two WEEK rows and two MONTH rows with counter 1,
\* and the ALL row with counter 2
C25_Witness ==
    /\ Len(calls) = 2
    /\ calls[1].day = DaysFromCivil(<<2024, 12, 29>>)
    /\ calls[2].day = DaysFromCivil(<<2025, 1, 1>>)
    /\ calls[1].errors = 0 /\ calls[2].errors = 0
    /\ stats[<<AllBucket, <<"qs1", "#", "0">>>>].wrongCountNum = 2
    /\ Cardinality({key \in DOMAIN stats :
                       key[1][1] = "WEEK:" /\ key[2] = <<"qs1", "#", "0">>}) = 2
    /\ Cardinality({key \in DOMAIN stats :
                       key[1][1] = "MONTH:" /\ key[2] = <<"qs1", "#", "0">>}) = 2

\* C26: for a record_wrong_answers call that passes validation and finds the
\* question set, updated is the length of updatedIds and counts the entries
\* that name an eligible question and had a bucket write succeed, and the
\* status follows from the counters alone: 200 iff updated > 0 and errors is
\* empty, 207 iff updated > 0 and errors is not empty, 500 iff updated = 0,
\* which includes the call whose entries were all skipped as ineligible and
\* which attempted no write.
C26_StatusFromCounters ==
    [][ \A r \in RecordRequests :
          ( /\ r.question_set_id = Qs1
            /\ r.question_ids # <<>>
            /\ RecordWrongAnswers(r.question_set_id, r.question_ids, r.collection_id,
                                  r.fault) )
          => /\ resp'.body.updated = Len(resp'.body.updated_ids)
             /\ resp'.body.updated =
                   IF FailingBuckets(r.fault, now) = CalendarBuckets(now) THEN 0
                   ELSE Cardinality(TrackedEntries(r.question_set_id, r.question_ids, qver))
             /\ resp'.status = 200
                   <=> (resp'.body.updated > 0 /\ resp'.body.errors = <<>>)
             /\ resp'.status = 207
                   <=> (resp'.body.updated > 0 /\ resp'.body.errors # <<>>)
             /\ resp'.status = 500 <=> resp'.body.updated = 0
             /\ TrackedEntries(r.question_set_id, r.question_ids, qver) = {}
                   => /\ resp'.status = 500
                      /\ resp'.body.errors = <<>>
                      /\ stats' = stats
      ]_vars

\* a call that named only a question with two answer-mapping entries and an
\* entry that is no integer was answered 500 with updated 0 and no error
C26_Witness ==
    /\ resp.op = "record"
    /\ resp.status = 500
    /\ resp.body.updated = 0
    /\ resp.body.errors = <<>>
    /\ calls # <<>>
    /\ calls[Len(calls)].question_ids = Untracked
    /\ calls[Len(calls)].status = 500

\* C27: the result of get_top_wrong_questions does not depend on the limit of
\* the caller: for the same period, store state, index and scan outcome, every
\* other limit, below 10 or above, gives the same response.
C27_LimitIsIgnored ==
    [][ \A period \in Periods, limit \in Limits, index \in {"ok", "error"},
           scan \in {"ok", "error"}, tie \in TieOrders :
          GetTopWrongQuestions(period, limit, index, scan, tie)
          => \A other \in Limits :
                resp'.result = get_top_wrong_questions(stats, now, period, other,
                                                       index, scan, tie)
      ]_vars

\* a caller that asked for 5 questions of a bucket of more than 10 rows was
\* given 10
C27_Witness ==
    /\ resp.op = "top"
    /\ resp.limit = 5
    /\ resp.result.status = 200
    /\ Cardinality(RowsInBucket(resp.result.bucket)) > eff_limit
    /\ Len(resp.result.questions) = eff_limit

\* the order was put into status completed by create_order or by
\* apply_discount_to_order: only these store a completed order of price 0
DirectlyCompleted(o) == orders[o].status = "completed" /\ orders[o].finalPrice = 0

\* no step of create_order or apply_discount_to_order changes a day row
CartWritesNoMetrics ==
    /\ \A u \in UserIds, t \in Prices, at \in Instants :
          CreateOrder(u, t, at) => metrics' = metrics
    /\ \A o \in 1..(MaxOrders + 1), code \in DiscountCodes \cup {UnknownCode},
          owner \in BOOLEAN :
          ApplyDiscountToOrder(o, code, owner) => metrics' = metrics

\* a rebuild over the date of a directly completed order of a user counts it
RebuildCountsDirectlyCompleted ==
    \A s \in ModelDates, e \in ModelDates :
       ( /\ RebuildMetricsRange(s, e, DefaultOrg, "ok")
         /\ resp'.status = 200 )
       => \A o \in 1..Len(orders) :
             ( /\ DirectlyCompleted(o)
               /\ DateLeq(s, _to_iso_date_from_epoch(orders[o].createdAt))
               /\ DateLeq(_to_iso_date_from_epoch(orders[o].createdAt), e) )
             => /\ MetricsKey(orders[o]) \in DOMAIN metrics'
                /\ metrics'[MetricsKey(orders[o])].orderCount >= 1
                /\ orders[o].userId # NoUser
                      => orders[o].userId \in
                            metrics'[MetricsKey(orders[o])].payingUserIds

\* C28 (as stated): create_order and apply_discount_to_order never change a
\* daily-metrics row, also when they store the order as completed, and such
\* an order contributes to a day row only through a later
\* rebuild_metrics_range: while no rebuild has run and every order was
\* completed directly, there is no day row.
C28_OnlyRebuildCounts ==
    /\ [][CartWritesNoMetrics]_vars
    /\ []( ( /\ nRebuilds = 0
             /\ \A o \in 1..Len(orders) : DirectlyCompleted(o) )
           => metrics = <<>> )

\* C28 (amended): create_order and apply_discount_to_order never change a
\* daily-metrics row, also when they store the order as completed (total 0,
\* or discounted to final price 0); while neither a rebuild nor a call of
\* increment_daily_metrics_for_order made by update_order_status has run there
\* is no day row, and a successful rebuild over the date of such an order
\* counts it.
C28_DirectCompletionWritesNoMetrics ==
    /\ [][CartWritesNoMetrics /\ RebuildCountsDirectlyCompleted]_vars
    /\ []( (nRebuilds = 0 /\ TotalIncCalls = 0) => metrics = <<>> )

\* a pending order of a user was discounted to final price 0 and stored as
\* completed and paid, with no day row written
C28_Witness ==
    /\ resp.op = "apply_discount"
    /\ resp.status = 200
    /\ \E o \in 1..Len(orders) :
          /\ orders[o].totalPrice > 0
          /\ orders[o].userId # NoUser
          /\ DirectlyCompleted(o)
          /\ orders[o].paymentStatus = "paid"
    /\ metrics = <<>>

\* the UTC date of an instant of the model, read off the midnight between the
\* two days: 2025-03-11T00:00:00Z is 1741651200 in epoch seconds
UtcDateOf(created_at) ==
    IF created_at < 1741651200 THEN <<2025, 3, 10>> ELSE <<2025, 3, 11>>

\* the rows other than key are the same before and after the step
OtherRowsUnchanged(key) ==
    \A k \in (DOMAIN metrics \cup DOMAIN metrics') \ {key} :
       /\ k \in DOMAIN metrics
       /\ k \in DOMAIN metrics'
       /\ metrics'[k] = metrics[k]

\* C29: one call of increment_daily_metrics_for_order (the one
\* update_order_status makes) changes at most one day row, the row of
\* organization 'default' for the UTC date of the createdAt of the order, and
\* leaves every other row as it was; for an order without userId it changes
\* no row.
C29_IncrementTouchesOneRow ==
    [][ \A o \in 1..MaxOrders, ps \in {"paid", "none"} :
          UpdateOrderStatus(o, "completed", ps)
          => /\ OtherRowsUnchanged(<<"default", UtcDateOf(orders[o].createdAt)>>)
             /\ orders[o].userId = NoUser => metrics' = metrics
      ]_vars

\* an order of the last second of 2025-03-10 was counted in the row of that
\* day while a row of the next day and a row of another organization exist
C29_Witness ==
    /\ resp.op = "update_order_status"
    /\ \E o \in 1..Len(orders) :
          /\ UtcDateOf(orders[o].createdAt) = <<2025, 3, 10>>
          /\ orders[o].userId # NoUser
          /\ incCalls[o] >= 1
    /\ <<"default", <<2025, 3, 10>>>> \in DOMAIN metrics
    /\ metrics[<<"default", <<2025, 3, 10>>>>].orderCount >= 1
    /\ \E k \in DOMAIN metrics : k[1] # "default" \/ k[2] # <<2025, 3, 10>>

\* the key is a row of the organization with its date in [start_date, end_date]
InRebuiltRange(k, start_date, end_date, organization_id) ==
    k[1] = organization_id /\ DateLeq(start_date, k[2]) /\ DateLeq(k[2], end_date)

\* C30: rebuild_metrics_range(d1, d2, org) deletes and writes only rows of
\* org whose date lies in [d1, d2]: every row outside the range and every row
\* of another organization is the same after the call, whatever the index
\* does, and no such row appears.
C30_RebuildStaysInRange ==
    [][ \A s \in ModelDates, e \in ModelDates, org \in Orgs,
           index \in {"ok", "missing", "error"} :
          RebuildMetricsRange(s, e, org, index)
          => \A k \in DOMAIN metrics \cup DOMAIN metrics' :
                ~InRebuiltRange(k, s, e, org)
                => /\ k \in DOMAIN metrics
                   /\ k \in DOMAIN metrics'
                   /\ metrics'[k] = metrics[k]
      ]_vars

\* a rebuild of 2025-03-10 for organization 'other' wrote the row of that day
\* while the rows of 'default' for that day and the next are in the table
C30_Witness ==
    /\ resp.op = "rebuild"
    /\ resp.status = 200
    /\ <<"other", <<2025, 3, 10>>>> \in DOMAIN metrics
    /\ <<"other", <<2025, 3, 11>>>> \notin DOMAIN metrics
    /\ <<"default", <<2025, 3, 10>>>> \in DOMAIN metrics
    /\ <<"default", <<2025, 3, 11>>>> \in DOMAIN metrics

====
